---- MODULE Spec2Model ----
(***************************************************************************)
(* Model of the portfolio dashboard: the quote cache with its time-to-live *)
(* and stale fallback (portfolio.py and web.py, each with its own _cache), *)
(* the price resolution built on it and the aggregation of holdings into a *)
(* snapshot.  A run is a run of one of the two programs (variable prog).   *)
(*                                                                         *)
(* Python values: None / an absent dict key is the empty sequence <<>> and *)
(* a present value x is <<x>>; a resolved price is [na |-> FALSE, val |->  *)
(* p] and the sentinel "N/A" is [na |-> TRUE, val |-> 0].  Prices, share   *)
(* counts and unit costs are non-negative integers; time is in seconds.    *)
(***************************************************************************)
EXTENDS Integers, Sequences, FiniteSets, TLC

VARIABLES prog,      \* which program runs: "portfolio" or "web"
          now,       \* time.time(), in seconds
          cache,     \* the program's _cache dict: key -> entry
          last,      \* the last completed call: arguments, what it read, result
          holdings,  \* the configured holdings list the aggregator reads
          quotes,    \* web.py: what the price_fetcher returns for each holding
          snap,      \* the last snapshot built
          config,    \* web.py: the configured lists build_context reads
          ctx,       \* web.py: what the last build_context call did and returned
          lock,      \* the thread that holds _cache_lock, if any
          thr        \* the threads: where each is in its call, and its locals

vars == <<prog, now, cache, last, holdings, quotes, snap, config, ctx, lock, thr>>

\* ---------------------------------------------------------------- bounds
MaxPrice == 1
MaxHoldings == 2
MaxChartRows == 12

Prices == 0..MaxPrice
\* the instants at which the clock is read: ages below, at and above both
\* time-to-lives (60 s and 300 s) occur between them
Instants == {0, 30, 60, 360}
Symbols == {"A", "B"}
WSymbols == {"A"}
\* share counts and unit costs of a configured holding
ShareCounts == {0, 2}
UnitCosts == {0, 1}

\* ------------------------------------------------------- python values
NoneV == <<>>
Some(x) == <<x>>
NA == [na |-> TRUE, val |-> 0]
Num(p) == [na |-> FALSE, val |-> p]
Max(a, b) == IF a >= b THEN a ELSE b

\* ------------------------------------------------------------ constants
TTL_FAST == 60
TTL_NORMAL == 300
TTL_LONG == 3600

\* ------------------------------------------------------------ the cache
\* _cache.get(key) under the lock
GetCache(c, key) == IF key \in DOMAIN c THEN Some(c[key]) ELSE NoneV

\* the dict replaced by one that holds the new key alone
SetCache_Only(c, key, value) == [k \in {key} |-> value]

\* _cache[key] = value under the lock
SetCache(c, key, value) == [k \in DOMAIN c \cup {key} |-> IF k = key THEN value ELSE c[k]]

\* ======================================================== portfolio.py
\* What requests.get(url) can do: raise (timeout, connection error, bad JSON),
\* answer with another status than 200, answer 200 with no chart result, or
\* answer 200 with a meta object holding regularMarketPrice (rmp) and
\* chartPreviousClose (cpc), each possibly missing.
OptPrices == {NoneV} \cup {Some(p) : p \in Prices}
YahooResponses ==
    {[kind |-> "raise", rmp |-> NoneV, cpc |-> NoneV],
     [kind |-> "status", rmp |-> NoneV, cpc |-> NoneV],
     [kind |-> "noresult", rmp |-> NoneV, cpc |-> NoneV]}
    \cup [kind : {"meta"}, rmp : OptPrices, cpc : OptPrices]

\* python truthiness of an optional number: None and 0 are falsy
Truthy(opt) == opt # NoneV /\ opt[1] # 0

\* a or b
PyOr(a, b) == IF Truthy(a) THEN a ELSE b

\* a failed request answered with a price of 0 instead of None
FetchPriceFromYahoo_ZeroOnFailure(resp) ==
    IF resp.kind # "meta" THEN Some(0)
    ELSE PyOr(resp.rmp, resp.cpc)

\* fetch_price_from_yahoo: the price as Some(p), or None
FetchPriceFromYahoo(resp) ==
    IF resp.kind # "meta" THEN NoneV
    ELSE PyOr(resp.rmp, resp.cpc)

\* one cache key for every symbol
PriceKey_Shared(symbol) == <<"price", "">>

\* key = ("price", symbol)
PriceKey(symbol) == <<"price", symbol>>

\* an entry aged exactly ttl still counted as fresh
PFresh_AtTtl(entry, t, ttl) == entry # NoneV /\ t - entry[1].ts <= ttl /\ entry[1].price # NoneV

\* the freshness test of cached_close
PFresh(entry, t, ttl) == entry # NoneV /\ t - entry[1].ts < ttl /\ entry[1].price # NoneV

\* no fallback to an expired entry
PStale_Never(entry) == FALSE

\* the stale-fallback test of cached_close: an entry of any age with a price
PStale(entry) == entry # NoneV /\ entry[1].price # NoneV

\* the entry stamped with the time 0 instead of the time of the call
PEntry_NoTime(t, price) == [ts |-> 0, price |-> price]

\* {"ts": now, "price": price}
PEntry(t, price) == [ts |-> t, price |-> price]

\* cached_close storing an entry without a price when the lookup failed
PCachedClose_CachesFailure(c, t, symbol, ttl, resp) ==
    LET key == PriceKey(symbol)
        entry == GetCache(c, key)
        price == FetchPriceFromYahoo(resp)
        failed == SetCache(c, key, PEntry(t, NoneV))
    IN  IF PFresh(entry, t, ttl)
        THEN [ret |-> Num(entry[1].price[1]), cache |-> c, fetches |-> 0, entry |-> entry]
        ELSE IF price # NoneV
        THEN [ret |-> Num(price[1]),
              cache |-> SetCache(c, key, PEntry(t, price)),
              fetches |-> 1, entry |-> entry]
        ELSE IF PStale(entry)
        THEN [ret |-> Num(entry[1].price[1]), cache |-> failed, fetches |-> 1, entry |-> entry]
        ELSE [ret |-> NA, cache |-> failed, fetches |-> 1, entry |-> entry]

\* cached_close(symbol, ttl) of portfolio.py at time t on cache c, the provider
\* answering resp if asked: the returned price, the cache afterwards and the
\* number of calls of fetch_price_from_yahoo
PCachedClose(c, t, symbol, ttl, resp) ==
    LET key == PriceKey(symbol)
        entry == GetCache(c, key)
        price == FetchPriceFromYahoo(resp)
    IN  IF PFresh(entry, t, ttl)
        THEN [ret |-> Num(entry[1].price[1]), cache |-> c, fetches |-> 0, entry |-> entry]
        ELSE IF price # NoneV
        THEN [ret |-> Num(price[1]),
              cache |-> SetCache(c, key, PEntry(t, price)),
              fetches |-> 1, entry |-> entry]
        ELSE IF PStale(entry)
        THEN [ret |-> Num(entry[1].price[1]), cache |-> c, fetches |-> 1, entry |-> entry]
        ELSE [ret |-> NA, cache |-> c, fetches |-> 1, entry |-> entry]

\* ============================================================== web.py
\* A pandas DataFrame as far as cached_close reads it: whether it has a "Close"
\* column and that column's rows, a NaN being <<>> and a number p being <<p>>.
\* Without a Close column rows holds one NaN per row of the other columns.
NaN == NoneV
Frame(hasClose, rows) == [hasClose |-> hasClose, rows |-> rows]

\* pd.DataFrame(): no columns, no rows
NewFrame == Frame(FALSE, <<>>)

\* what ticker.history() can answer: no rows, rows without a Close column, a
\* Close column of NaN only, and Close columns with numbers
Frames ==
    {Frame(TRUE, <<>>), Frame(FALSE, <<NaN>>), Frame(TRUE, <<NaN>>),
     Frame(TRUE, <<Some(0), Some(MaxPrice)>>)}
    \cup {Frame(TRUE, <<Some(p)>>) : p \in Prices}
    \cup {Frame(TRUE, <<Some(p), NaN>>) : p \in Prices}

\* ticker.history() raises, or returns a frame
Raises == [raise |-> TRUE, df |-> NewFrame]
HistoryResponses == {Raises} \cup [raise : {FALSE}, df : Frames]

\* df.empty
IsEmpty(df) == Len(df.rows) = 0

\* df["Close"].dropna()
DropNa(rows) == SelectSeq(rows, LAMBDA v : v # NaN)

\* the closing price cached_close reads off a frame: Some(float(close.iloc[-1])),
\* or None when the frame is empty, has no Close column or only NaN in it
LastClose(df) ==
    IF ~IsEmpty(df) /\ df.hasClose
    THEN LET close == DropNa(df.rows)
         IN  IF close # <<>> THEN Some(close[Len(close)][1]) ELSE NoneV
    ELSE NoneV

HistoryKey(symbol, period) == <<"history", symbol, period, NoneV, NoneV>>

\* the age compared the wrong way round
WFresh_Inverted(entry, t, ttl) == entry # NoneV /\ t - entry[1].ts > ttl

\* the freshness test of cached_history; entry["data"] is a frame, never None
WFresh(entry, t, ttl) == entry # NoneV /\ t - entry[1].ts < ttl

\* the stale-fallback test of cached_history, after the lookup raised
WStale(entry) == entry # NoneV

\* the 1mo window given the caller's time-to-live unchanged
LongTtl_Same(ttl) == ttl

\* the time-to-live cached_close gives the 1mo window
LongTtl(ttl) == Max(ttl, TTL_NORMAL)

\* cached_history(symbol, period=period, ttl=ttl) at time t on cache c, the
\* provider answering resp if asked: the frame returned, the cache afterwards and
\* how the frame was obtained (src): "fresh" from the cache without a remote
\* lookup, "remote" from the provider, "stale" from the cache after the lookup
\* raised, "new" an empty frame after the lookup raised with nothing cached
CachedHistory(c, t, symbol, period, ttl, resp) ==
    LET key == HistoryKey(symbol, period)
        entry == GetCache(c, key)
        look(df, cc, src) == [df |-> df, cache |-> cc, period |-> period, ttl |-> ttl,
                              at |-> t, entry |-> entry, src |-> src,
                              resp |-> IF src = "fresh" THEN NoneV ELSE Some(resp)]
    IN  IF WFresh(entry, t, ttl) THEN look(entry[1].data, c, "fresh")
        ELSE IF ~resp.raise
        THEN look(resp.df, SetCache(c, key, [ts |-> t, data |-> resp.df]), "remote")
        ELSE IF WStale(entry) THEN look(entry[1].data, c, "stale")
        ELSE look(NewFrame, c, "new")

\* what the log keeps of one cached_history call
Lookup(h) == [period |-> h.period, ttl |-> h.ttl, at |-> h.at, entry |-> h.entry,
              resp |-> h.resp, df |-> h.df]

\* cached_close(symbol, ttl) of web.py: the 7d window, then the 1mo window; r7
\* and r1mo are the provider's answers for the two windows if asked
WCachedClose(c, t, symbol, ttl, r7, r1mo) ==
    LET h1 == CachedHistory(c, t, symbol, "7d", ttl, r7)
        p1 == LastClose(h1.df)
        h2 == CachedHistory(h1.cache, t, symbol, "1mo", LongTtl(ttl), r1mo)
        p2 == LastClose(h2.df)
    IN  IF p1 # NoneV
        THEN [ret |-> Num(p1[1]), cache |-> h1.cache, log |-> <<Lookup(h1)>>]
        ELSE IF p2 # NoneV
        THEN [ret |-> Num(p2[1]), cache |-> h2.cache, log |-> <<Lookup(h1), Lookup(h2)>>]
        ELSE [ret |-> NA, cache |-> h2.cache, log |-> <<Lookup(h1), Lookup(h2)>>]

\* the number of remote lookups in a log
RECURSIVE Remote(_)
Remote(log) ==
    IF log = <<>> THEN 0
    ELSE (IF log[1].resp = NoneV THEN 0 ELSE 1) + Remote(Tail(log))

\* ========================================================= aggregation
\* A percentage is kept exact, as the fraction num / den with den > 0.
Pct(num, den) == [num |-> num, den |-> den]
ZeroPct == Pct(0, 1)
PctEq(a, b) == a.num * b.den = b.num * a.den

RECURSIVE Sum(_)
\* sum(...) of a sequence of numbers
Sum(seq) == IF seq = <<>> THEN 0 ELSE Head(seq) + Sum(Tail(seq))

\* it["market_value"] for it in items
MarketValues(items) == [i \in 1..Len(items) |-> items[i].market_value]

\* r["cost"] * r["shares"] for r in rows
CostTotals(rows) == [i \in 1..Len(rows) |-> rows[i].cost * rows[i].shares]

\* the market values taken for the profits
Profits_AsMarketValues(items) == [i \in 1..Len(items) |-> items[i].market_value]

\* it["profit"] for it in items
Profits(items) == [i \in 1..Len(items) |-> items[i].profit]

\* f"{x:.2f}" of a whole number
Fmt2(x) == ToString(x) \o ".00"

\* it placed at the end of the list whatever its market value
InsertDesc_Append(sorted, it) == sorted \o <<it>>

RECURSIVE InsertDesc(_, _)
\* it placed after every item of the sorted list whose market value is not smaller
InsertDesc(sorted, it) ==
    IF sorted = <<>> THEN <<it>>
    ELSE IF Head(sorted).market_value >= it.market_value
         THEN <<Head(sorted)>> \o InsertDesc(Tail(sorted), it)
         ELSE <<it>> \o sorted

RECURSIVE SortDesc(_)
\* items.sort(key=lambda x: x["market_value"], reverse=True): stable, descending
SortDesc(items) ==
    IF items = <<>> THEN <<>>
    ELSE InsertDesc(SortDesc(SubSeq(items, 1, Len(items) - 1)), items[Len(items)])

\* ---------------------------------------------------------- portfolio.py
EXCLUDED_ETFS_US_P == {}

\* _build_core_rows
BuildCoreRows(rows) == SelectSeq(rows, LAMBDA r : r.symbol \notin EXCLUDED_ETFS_US_P)

\* the unit cost taken for the cost of the whole position
PProfit_UnitCost(mv, row) == mv - row.cost

\* profit = mv - row["cost"] * row["shares"]
PProfit(mv, row) == mv - row.cost * row.shares

\* the item _build_portfolio_snapshot makes of one row and its resolved price
PItem(row, price) ==
    IF price = NA
    THEN [symbol |-> row.symbol, price |-> price, price_str |-> "N/A",
          shares |-> row.shares, cost |-> row.cost,
          market_value |-> 0, mv_str |-> "N/A", profit |-> 0, profit_pct |-> ZeroPct]
    ELSE LET mv == price.val * row.shares
             profit == PProfit(mv, row)
         IN  [symbol |-> row.symbol, price |-> price, price_str |-> Fmt2(price.val),
              shares |-> row.shares, cost |-> row.cost,
              market_value |-> mv, mv_str |-> Fmt2(mv), profit |-> profit,
              profit_pct |-> IF row.cost * row.shares # 0
                             THEN Pct(profit * 100, row.cost * row.shares)
                             ELSE ZeroPct]

RECURSIVE PResolveRows(_, _, _, _)
\* the loop of _build_portfolio_snapshot: cached_close for each row in turn, resps[i]
\* being the provider's answer for the i-th row if asked; the items in row order
\* and the cache afterwards
PResolveRows(c, t, rows, resps) ==
    IF rows = <<>> THEN [items |-> <<>>, cache |-> c]
    ELSE LET r == PCachedClose(c, t, Head(rows).symbol, TTL_FAST, Head(resps))
             rest == PResolveRows(r.cache, t, Tail(rows), Tail(resps))
         IN  [items |-> <<PItem(Head(rows), r.ret)>> \o rest.items, cache |-> rest.cache]

TopN == 10

\* _build_portfolio_snapshot from the items of the loop
PSnapshot(rows, items) ==
    LET core_total_mv == Sum(MarketValues(items))
        core_total_cost == Sum(CostTotals(rows))
        core_total_profit == Sum(Profits(items))
        sorted == SortDesc(items)
        top == SubSeq(sorted, 1, IF Len(sorted) < TopN THEN Len(sorted) ELSE TopN)
        others_mv == Sum(MarketValues(SubSeq(sorted, Len(top) + 1, Len(sorted))))
    IN  [kind |-> "portfolio",
         core_items |-> sorted,
         core_total_mv |-> core_total_mv,
         core_total_cost |-> core_total_cost,
         core_total_profit |-> core_total_profit,
         core_total_pct |-> IF core_total_cost # 0
                            THEN Pct(core_total_profit * 100, core_total_cost)
                            ELSE ZeroPct,
         chart_labels |-> [i \in 1..Len(top) |-> top[i].symbol]
                          \o (IF others_mv > 0 THEN <<"Others">> ELSE <<>>),
         chart_data |-> [i \in 1..Len(top) |-> top[i].market_value]
                        \o (IF others_mv > 0 THEN <<others_mv>> ELSE <<>>)]

\* ---------------------------------------------------------------- web.py
\* the ratio not scaled to a percentage
WProfitPct_NoScale(mv, cost_total) == Pct(mv - cost_total, cost_total)

\* profit_pct = (mv - cost_total) / cost_total * 100
WProfitPct(mv, cost_total) == Pct((mv - cost_total) * 100, cost_total)

\* the item process_usd_asset_portfolio makes of one row and the price its
\* price_fetcher returned; the quantity is row[amount_key], kept in field shares
WItem(row, price) ==
    LET cost_total == row.cost * row.shares
        unpriced == price = NA \/ cost_total = 0
        mv == IF unpriced THEN 0 ELSE price.val * row.shares
    IN  [symbol |-> row.symbol, price |-> price,
         price_str |-> IF price # NA THEN Fmt2(price.val) ELSE "N/A",
         shares |-> row.shares, cost |-> row.cost,
         market_value |-> mv, mv_str |-> Fmt2(mv),
         profit_pct |-> IF unpriced THEN ZeroPct ELSE WProfitPct(mv, cost_total)]

\* process_usd_asset_portfolio(portfolio, price_fetcher): prices[i] is what
\* price_fetcher returned for the i-th row
ProcessUsdAssetPortfolio(portfolio, prices) ==
    LET items == [i \in 1..Len(portfolio) |-> WItem(portfolio[i], prices[i])]
        total_market_value == Sum(MarketValues(items))
        total_cost == Sum(CostTotals(portfolio))
        total_profit == total_market_value - total_cost
    IN  [kind |-> "web",
         table |-> SortDesc(items),
         total_market_value_usd |-> total_market_value,
         total_cost_usd |-> total_cost,
         total_profit_usd |-> total_profit,
         total_profit_pct |-> IF total_cost # 0 THEN Pct(total_profit * 100, total_cost)
                              ELSE ZeroPct]

\* ------------------------------------------------ web.py: build_context
\* A whole-number price p of the provider as an exchange rate: rates, and with
\* them every amount in TWD, are kept in tenths, so that the default rate 32.5
\* is the whole number 325 and the rate 1.0 is 10.
Tenths(p) == p * 10
DEFAULT_USDTWD == 325
DEFAULT_RATE == 10

\* One call of cached_close(symbol, ttl) during a build; market[symbol] is what
\* the provider answers to a lookup of symbol, for either window.  The call is
\* kept with its result.
WClose(c, t, symbol, ttl, market) ==
    LET called(r) == [ret |-> r.ret, cache |-> r.cache,
                      calls |-> <<[symbol |-> symbol, ttl |-> ttl, ret |-> r.ret]>>]
    IN  called(WCachedClose(c, t, symbol, ttl, market[symbol], market[symbol]))

\* the bare pair tried before the "=X" symbol
Suffixes_BareFirst == <<"", "=X">>

\* for suffix in ["=X", ""]
Suffixes == <<"=X", "">>

RECURSIVE RateLoop(_, _, _, _, _, _)
\* the loop of get_currency_rate over the suffixes left
RateLoop(c, t, pair, default, market, suffixes) ==
    IF suffixes = <<>> THEN [ret |-> Num(default), cache |-> c, calls |-> <<>>]
    ELSE LET after(calls, rest) ==
                 [ret |-> rest.ret, cache |-> rest.cache, calls |-> calls \o rest.calls]
             tried(r) ==
                 IF r.ret # NA
                 THEN [ret |-> Num(Tenths(r.ret.val)), cache |-> r.cache, calls |-> r.calls]
                 ELSE after(r.calls,
                            RateLoop(r.cache, t, pair, default, market, Tail(suffixes)))
         IN  tried(WClose(c, t, pair \o Head(suffixes), TTL_LONG, market))

\* get_currency_rate(pair, default): the rate in tenths, default being in tenths
GetCurrencyRate(c, t, pair, default, market) ==
    RateLoop(c, t, pair, default, market, Suffixes)

\* get_crypto_price's symbol: f"{symbol}-USD"
CryptoSymbol(symbol) == symbol \o "-USD"

RECURSIVE FetchRows(_, _, _, _, _)
\* the calls of price_fetcher(row["symbol"]) in the loop of
\* process_usd_asset_portfolio, price_fetcher being get_crypto_price when crypto
\* and cached_close otherwise: the prices in row order and the cache afterwards
FetchRows(c, t, rows, crypto, market) ==
    IF rows = <<>> THEN [prices |-> <<>>, cache |-> c]
    ELSE LET sym == IF crypto THEN CryptoSymbol(Head(rows).symbol) ELSE Head(rows).symbol
             after(price, rest) == [prices |-> <<price>> \o rest.prices, cache |-> rest.cache]
             fetched(r) == after(r.ret, FetchRows(r.cache, t, Tail(rows), crypto, market))
         IN  fetched(WClose(c, t, sym, TTL_FAST, market))

\* symbol.replace(".TW", "") on the symbols the TW list is configured with
ReplaceTW(symbol) ==
    CASE symbol = "0050.TW" -> "0050"
      [] OTHER -> symbol

\* the bare symbol tried before the suffixed ones
TwCandidates_BareFirst(symbol) ==
    <<ReplaceTW(symbol), ReplaceTW(symbol) \o ".TW", ReplaceTW(symbol) \o ".TWO",
      ReplaceTW(symbol) \o ".TPE">>

\* candidates of get_tw_stock_price
TwCandidates(symbol) ==
    LET base == ReplaceTW(symbol)
    IN  <<base \o ".TW", base \o ".TWO", base, base \o ".TPE">>

RECURSIVE TwLoop(_, _, _, _, _)
\* the loop of get_tw_stock_price over the candidates left
TwLoop(c, t, candidates, seen, market) ==
    IF candidates = <<>> THEN [ret |-> NA, cache |-> c, calls |-> <<>>]
    ELSE IF Head(candidates) \in seen THEN TwLoop(c, t, Tail(candidates), seen, market)
    ELSE LET after(calls, rest) ==
                 [ret |-> rest.ret, cache |-> rest.cache, calls |-> calls \o rest.calls]
             tried(r) ==
                 IF r.ret # NA THEN r
                 ELSE after(r.calls,
                            TwLoop(r.cache, t, Tail(candidates),
                                   seen \cup {Head(candidates)}, market))
         IN  tried(WClose(c, t, Head(candidates), TTL_FAST, market))

\* get_tw_stock_price(symbol)
GetTwStockPrice(c, t, symbol, market) == TwLoop(c, t, TwCandidates(symbol), {}, market)

\* the percentage computed without the test of its denominator
TotalPct_Unguarded(profit, cost) == Pct(profit * 100, cost)

\* (profit / cost * 100) if cost else 0.0
TotalPct(profit, cost) == IF cost # 0 THEN Pct(profit * 100, cost) ELSE ZeroPct

\* total or 1
Denominator(total) == IF total # 0 THEN total ELSE 1

\* f"{x:.2f}%" of a percentage num / den, den > 0: rounded to hundredths
FmtPct(p) ==
    LET h == (200 * p.num + p.den) \div (2 * p.den)
        a == IF h < 0 THEN -h ELSE h
    IN  (IF h < 0 THEN "-" ELSE "") \o ToString(a \div 100) \o "."
           \o ToString((a % 100) \div 10) \o ToString(a % 10) \o "%"

\* a row counted in every sector whose set holds its symbol
InSector_AnySet(sym, groups, sector) ==
    CASE sector = "power" -> sym \in groups.power
      [] sector = "index" -> sym \in groups.index
      [] sector = "defense" -> sym \in groups.defense
      [] OTHER -> sym \notin groups.power \cup groups.index \cup groups.defense

\* the if / elif / else chain over US_GROUP_POWER, US_GROUP_INDEX and
\* US_GROUP_DEFENSE: whether a row with this symbol is added to this sector's total
InSector(sym, groups, sector) ==
    CASE sector = "power" -> sym \in groups.power
      [] sector = "index" -> sym \notin groups.power /\ sym \in groups.index
      [] sector = "defense" ->
            sym \notin groups.power /\ sym \notin groups.index /\ sym \in groups.defense
      [] OTHER -> sym \notin groups.power \cup groups.index \cup groups.defense

\* power_total_usd, index_total_usd, defense_total_usd, tech_other_total_usd
SectorTotal(table, groups, sector) ==
    Sum(MarketValues(SelectSeq(table, LAMBDA it : InSector(it.symbol, groups, sector))))

\* the weight of an excluded row computed like any other
WeightCore_ExcludedToo(it, is_excluded, den_core) == Pct(it.market_value * 100, den_core)

\* weight_core_pct = 0 if is_excluded else it["market_value"] / us_denominator_core * 100
WeightCore(it, is_excluded, den_core) ==
    IF is_excluded THEN ZeroPct ELSE Pct(it.market_value * 100, den_core)

\* the whole-portfolio weight displayed whatever the toggle
WeightDisplay_AlwaysAll(hide_etf, weight_core_pct, weight_all_pct) == weight_all_pct

\* weight_display = weight_core_pct if hide_etf else weight_all_pct
WeightDisplay(hide_etf, weight_core_pct, weight_all_pct) ==
    IF hide_etf THEN weight_core_pct ELSE weight_all_pct

\* the row of us_table made of one item of us_data["table"]
UsRow(it, groups, hide_etf, den_all, den_core) ==
    LET is_excluded == it.symbol \in groups.excluded
        weight_all_pct == IF den_all # 0 THEN Pct(it.market_value * 100, den_all) ELSE ZeroPct
        weight_core_pct == WeightCore(it, is_excluded, den_core)
        weight_display == WeightDisplay(hide_etf, weight_core_pct, weight_all_pct)
    IN  it @@ [is_excluded |-> is_excluded,
               weight_all_pct |-> weight_all_pct,
               weight_core_pct |-> weight_core_pct,
               weight_all_pct_str |-> FmtPct(weight_all_pct),
               weight_core_pct_str |-> FmtPct(weight_core_pct),
               weight_display |-> FmtPct(weight_display)]

\* the item build_context makes of one row of TW_PORTFOLIO and its price; calls
\* are the cached_close calls get_tw_stock_price made for it
TwItem(row, price, calls) ==
    LET cost_total == row.cost * row.shares
        unpriced == price = NA \/ cost_total = 0
        mv == IF unpriced THEN 0 ELSE price.val * row.shares
    IN  [symbol |-> row.symbol, price |-> price, shares |-> row.shares, cost |-> row.cost,
         market_value |-> mv,
         profit_pct |-> IF unpriced THEN ZeroPct
                        ELSE Pct((price.val * row.shares - cost_total) * 100, cost_total),
         calls |-> calls]

RECURSIVE TwRows(_, _, _, _)
\* the loop over TW_PORTFOLIO
TwRows(c, t, rows, market) ==
    IF rows = <<>> THEN [items |-> <<>>, cache |-> c]
    ELSE LET after(item, rest) == [items |-> <<item>> \o rest.items, cache |-> rest.cache]
             priced(r) == after(TwItem(Head(rows), r.ret, r.calls),
                                TwRows(r.cache, t, Tail(rows), market))
         IN  priced(GetTwStockPrice(c, t, Head(rows).symbol, market))

\* the row of tw_table made of one item
TwRow(it, tw_denominator) ==
    it @@ [price_str |-> IF it.price # NA THEN Fmt2(it.price.val) ELSE "N/A",
           weight_str |-> FmtPct(Pct(it.market_value * 100, tw_denominator))]

RECURSIVE CashLoop(_, _, _, _)
\* the loop over CASH_HOLDINGS: the rows with the rate each was valued at (in
\* tenths) and the cached_close calls made for it, and cash_total_value_twd
CashLoop(c, t, rows, market) ==
    IF rows = <<>> THEN [table |-> <<>>, total |-> 0, cache |-> c]
    ELSE LET row == Head(rows)
             after(r, mv_twd, rest) ==
                 [table |-> <<[currency |-> row.currency, amount |-> row.amount,
                               rate |-> r.ret, calls |-> r.calls, mv_twd |-> mv_twd]>>
                            \o rest.table,
                  total |-> mv_twd + rest.total,
                  cache |-> rest.cache]
             valued(r) ==
                 after(r, row.amount * r.ret.val, CashLoop(r.cache, t, Tail(rows), market))
         IN  valued(IF row.currency = "TWD"
                    THEN [ret |-> Num(DEFAULT_RATE), cache |-> c, calls |-> <<>>]
                    ELSE GetCurrencyRate(c, t, row.currency \o "TWD", DEFAULT_RATE, market))

\* the price and rate lookups of build_context in the order it makes them, each
\* on the cache the one before left: the exchange rate, US_PORTFOLIO,
\* TW_PORTFOLIO, the bonds, crypto and gold lists, CASH_HOLDINGS
Lookups(c, t, cfg, market) ==
    LET x == GetCurrencyRate(c, t, "USDTWD", DEFAULT_USDTWD, market)
        usf == FetchRows(x.cache, t, cfg.us, FALSE, market)
        tw == TwRows(usf.cache, t, cfg.tw, market)
        sbf == FetchRows(tw.cache, t, cfg.short_term_bonds, FALSE, market)
        lbf == FetchRows(sbf.cache, t, cfg.long_term_bonds, FALSE, market)
        crf == FetchRows(lbf.cache, t, cfg.crypto, TRUE, market)
        gdf == FetchRows(crf.cache, t, cfg.gold, FALSE, market)
        cash == CashLoop(gdf.cache, t, cfg.cash, market)
    IN  [x |-> x, usf |-> usf, tw |-> tw, sbf |-> sbf, lbf |-> lbf, crf |-> crf,
         gdf |-> gdf, cash |-> cash]

\* build_context(hide_etf) at time t on cache c with the configured lists cfg,
\* the provider answering by market: the cache afterwards and the template
\* arguments.  Amounts in TWD are in tenths; exchange and the calls fields keep
\* the cached_close calls made, us_data what process_usd_asset_portfolio
\* returned for US_PORTFOLIO.
BuildCtx(c, t, cfg, hide_etf, market) ==
  LET context(looked) ==
    LET groups == cfg.groups
        x == looked.x
        exchange_rate == x.ret.val
        usf == looked.usf
        us_data == ProcessUsdAssetPortfolio(cfg.us, usf.prices)
        us_total_market_value == us_data.total_market_value_usd
        us_total_cost == us_data.total_cost_usd
        us_core_items == SelectSeq(us_data.table, LAMBDA it : it.symbol \notin groups.excluded)
        us_core_total_market_value == Sum(MarketValues(us_core_items))
        us_core_total_cost ==
            Sum(CostTotals(SelectSeq(cfg.us, LAMBDA r : r.symbol \notin groups.excluded)))
        us_core_total_profit == us_core_total_market_value - us_core_total_cost
        us_denominator_all == Denominator(us_total_market_value)
        us_denominator_core == Denominator(us_core_total_market_value)
        us_rows == [i \in 1..Len(us_data.table) |->
                       UsRow(us_data.table[i], groups, hide_etf,
                             us_denominator_all, us_denominator_core)]
        us_table == IF hide_etf THEN SelectSeq(us_rows, LAMBDA it : ~it.is_excluded)
                    ELSE us_rows
        tw == looked.tw
        tw_total_market_value == Sum(MarketValues(tw.items))
        tw_total_cost == Sum(CostTotals(cfg.tw))
        tw_total_profit == tw_total_market_value - tw_total_cost
        tw_denominator == Denominator(tw_total_market_value)
        sbf == looked.sbf
        short_term_bonds_data == ProcessUsdAssetPortfolio(cfg.short_term_bonds, sbf.prices)
        lbf == looked.lbf
        long_term_bonds_data == ProcessUsdAssetPortfolio(cfg.long_term_bonds, lbf.prices)
        crf == looked.crf
        crypto_data == ProcessUsdAssetPortfolio(cfg.crypto, crf.prices)
        gdf == looked.gdf
        gold_data == ProcessUsdAssetPortfolio(cfg.gold, gdf.prices)
        cash == looked.cash
        total_stock_value_twd ==
            us_total_market_value * exchange_rate + Tenths(tw_total_market_value)
        short_term_bonds_total_value_twd ==
            short_term_bonds_data.total_market_value_usd * exchange_rate
        long_term_bonds_total_value_twd ==
            long_term_bonds_data.total_market_value_usd * exchange_rate
        total_crypto_value_twd == crypto_data.total_market_value_usd * exchange_rate
        gold_total_value_twd == gold_data.total_market_value_usd * exchange_rate
        grand_total_market_value_twd ==
            total_stock_value_twd + cash.total + total_crypto_value_twd
               + short_term_bonds_total_value_twd + long_term_bonds_total_value_twd
               + gold_total_value_twd
        grand_total_cost_twd ==
            us_total_cost * exchange_rate + Tenths(tw_total_cost)
               + short_term_bonds_data.total_cost_usd * exchange_rate
               + long_term_bonds_data.total_cost_usd * exchange_rate
               + cash.total
               + crypto_data.total_cost_usd * exchange_rate
               + gold_data.total_cost_usd * exchange_rate
        grand_total_profit_twd == grand_total_market_value_twd - grand_total_cost_twd
    IN  [cache |-> cash.cache,
         ctx |->
           [exchange |-> [pair |-> "USDTWD", default |-> DEFAULT_USDTWD,
                          ret |-> x.ret, calls |-> x.calls],
            exchange_rate |-> exchange_rate,
            initial_hide_etf |-> hide_etf,
            us_data |-> us_data,
            us_table |-> us_table,
            us_total_market_value |-> us_total_market_value,
            us_total_cost |-> us_total_cost,
            us_total_profit |-> us_data.total_profit_usd,
            us_total_profit_pct |-> us_data.total_profit_pct,
            us_core_total_market_value |-> us_core_total_market_value,
            us_core_total_cost |-> us_core_total_cost,
            us_core_total_profit |-> us_core_total_profit,
            us_core_total_profit_pct |-> TotalPct(us_core_total_profit, us_core_total_cost),
            power_total_usd |-> SectorTotal(us_data.table, groups, "power"),
            index_total_usd |-> SectorTotal(us_data.table, groups, "index"),
            defense_total_usd |-> SectorTotal(us_data.table, groups, "defense"),
            tech_other_total_usd |-> SectorTotal(us_data.table, groups, "tech_other"),
            tw_table |-> SortDesc([i \in 1..Len(tw.items) |-> TwRow(tw.items[i], tw_denominator)]),
            tw_total_market_value |-> tw_total_market_value,
            tw_total_cost |-> tw_total_cost,
            tw_total_profit |-> tw_total_profit,
            tw_total_profit_pct |-> TotalPct(tw_total_profit, tw_total_cost),
            short_term_bonds |-> short_term_bonds_data,
            long_term_bonds |-> long_term_bonds_data,
            crypto |-> crypto_data,
            gold |-> gold_data,
            cash_table |-> cash.table,
            cash_total_value_twd |-> cash.total,
            total_stock_value_twd |-> total_stock_value_twd,
            total_crypto_value_twd |-> total_crypto_value_twd,
            short_term_bonds_total_value_twd |-> short_term_bonds_total_value_twd,
            long_term_bonds_total_value_twd |-> long_term_bonds_total_value_twd,
            gold_total_value_twd |-> gold_total_value_twd,
            grand_total_market_value_twd |-> grand_total_market_value_twd,
            grand_total_cost_twd |-> grand_total_cost_twd,
            grand_total_profit_twd |-> grand_total_profit_twd,
            grand_total_profit_pct |-> TotalPct(grand_total_profit_twd, grand_total_cost_twd)]]
  IN  context(Lookups(c, t, cfg, market))

\* ============================================================== actions
NoCall == [op |-> "none", symbol |-> "", ttl |-> 0, at |-> 0, entry |-> NoneV,
           resp |-> NoneV, ret |-> NA, fetches |-> 0, log |-> <<>>]

Init ==
    /\ prog \in {"portfolio", "web"}
    /\ now = 0
    /\ cache = <<>>
    /\ last = NoCall
    /\ holdings = <<>>
    /\ quotes = <<>>
    /\ snap = <<>>
    /\ config = <<>>
    /\ ctx = <<>>
    /\ lock = NoneV
    /\ thr = <<>>

\* the clock advances between calls
Tick ==
    /\ \E t \in Instants : t > now /\ now' = t
    /\ UNCHANGED <<prog, cache, last, holdings, quotes, snap, config, ctx, lock, thr>>

\* one call of portfolio.py's cached_close(symbol, ttl)
PResolve ==
    /\ prog = "portfolio"
    /\ \E symbol \in Symbols, ttl \in {TTL_FAST}, resp \in YahooResponses :
          LET r == PCachedClose(cache, now, symbol, ttl, resp)
          IN  /\ cache' = r.cache
              /\ last' = [op |-> "cached_close", symbol |-> symbol, ttl |-> ttl, at |-> now,
                          entry |-> r.entry,
                          resp |-> IF r.fetches = 0 THEN NoneV ELSE Some(resp),
                          ret |-> r.ret, fetches |-> r.fetches, log |-> <<>>]
    /\ UNCHANGED <<prog, now, holdings, quotes, snap, config, ctx, lock, thr>>

\* the provider's possible answers to one cached_history call; an answer that is
\* not asked for (the entry is fresh) is left out of the choice
Answers(c, t, symbol, period, ttl) ==
    IF WFresh(GetCache(c, HistoryKey(symbol, period)), t, ttl) THEN {Raises}
    ELSE HistoryResponses

\* the same for the 1mo window, which is not reached when the 7d frame has a close
Answers1mo(c, t, symbol, ttl, r7) ==
    IF LastClose(CachedHistory(c, t, symbol, "7d", ttl, r7).df) # NoneV THEN {Raises}
    ELSE Answers(c, t, symbol, "1mo", LongTtl(ttl))

\* one call of web.py's cached_close(symbol, ttl)
WResolve ==
    /\ prog = "web"
    /\ \E symbol \in WSymbols, ttl \in {TTL_FAST, TTL_LONG} :
       \E r7 \in Answers(cache, now, symbol, "7d", ttl) :
       \E r1mo \in Answers1mo(cache, now, symbol, ttl, r7) :
          LET r == WCachedClose(cache, now, symbol, ttl, r7, r1mo)
          IN  /\ cache' = r.cache
              /\ last' = [op |-> "cached_close", symbol |-> symbol, ttl |-> ttl, at |-> now,
                          entry |-> NoneV, resp |-> NoneV, ret |-> r.ret,
                          fetches |-> Remote(r.log), log |-> r.log]
    /\ UNCHANGED <<prog, now, holdings, quotes, snap, config, ctx, lock, thr>>

Next == Tick \/ PResolve \/ WResolve

Spec == Init /\ [][Next]_vars
\* ------------------------------------------- the snapshot specification
HoldingRows == [symbol : Symbols, shares : ShareCounts, cost : UnitCosts]
\* the configured lists of up to MaxHoldings rows, the empty one among them; the
\* symbols being interchangeable, the first row's is "A"
HoldingLists ==
    {h \in UNION {[1..n -> HoldingRows] : n \in 0..MaxHoldings} : h = <<>> \/ h[1].symbol = "A"}
AggInstants == {0, 60}
FetcherResults == {NA} \cup {Num(p) : p \in Prices}
\* the provider's answers during a build: a failure, each price, and a price of 0
\* beside a previous close
BuildResponses ==
    {r \in YahooResponses :
        \/ r.kind = "raise"
        \/ r.kind = "meta" /\ r.rmp # NoneV /\ r.cpc = NoneV
        \/ r.kind = "meta" /\ r.rmp = Some(0) /\ r.cpc = Some(MaxPrice)}

InitAgg ==
    /\ prog \in {"portfolio", "web"}
    /\ now = 0
    /\ cache = <<>>
    /\ last = NoCall
    /\ holdings \in HoldingLists
    /\ quotes \in IF prog = "web" THEN [1..Len(holdings) -> FetcherResults] ELSE {<<>>}
    /\ snap = <<>>
    /\ config = <<>>
    /\ ctx = <<>>
    /\ lock = NoneV
    /\ thr = <<>>

TickAgg ==
    /\ prog = "portfolio"
    /\ \E t \in AggInstants : t > now /\ now' = t
    /\ UNCHANGED <<prog, cache, last, holdings, quotes, snap, config, ctx, lock, thr>>

\* a build that takes the first row off the configured holdings
PBuild_ConsumesRows ==
    /\ prog = "portfolio"
    /\ \E r \in {PResolveRows(cache, now, BuildCoreRows(holdings), resps) :
                     resps \in [1..Len(holdings) -> BuildResponses]} :
          /\ cache' = r.cache
          /\ snap' = <<PSnapshot(BuildCoreRows(holdings), r.items)>>
    /\ holdings' = IF holdings = <<>> THEN holdings ELSE Tail(holdings)
    /\ UNCHANGED <<prog, now, last, quotes, config, ctx, lock, thr>>

\* portfolio.py builds a snapshot of the configured holdings
PBuild ==
    /\ prog = "portfolio"
    /\ \E r \in {PResolveRows(cache, now, BuildCoreRows(holdings), resps) :
                     resps \in [1..Len(holdings) -> BuildResponses]} :
          /\ cache' = r.cache
          /\ snap' = <<PSnapshot(BuildCoreRows(holdings), r.items)>>
    /\ UNCHANGED <<prog, now, last, holdings, quotes, config, ctx, lock, thr>>

\* web.py aggregates a list of holdings with the prices its fetcher returns, the
\* function being called by itself
WProcess ==
    /\ prog = "web" /\ config = <<>>
    /\ snap' = <<ProcessUsdAssetPortfolio(holdings, quotes)>>
    /\ UNCHANGED <<prog, now, cache, last, holdings, quotes, config, ctx, lock, thr>>

NextAgg == TickAgg \/ PBuild \/ WProcess

SpecAgg == InitAgg /\ [][NextAgg]_vars
\* ------------------------------------- the build_context specification
\* US_PORTFOLIO: up to MaxHoldings of these symbols, each once, in this order
\* FULL_PORTFOLIO lists longer than the chart's ten entries: up to MaxChartRows
\* rows of symbols S1, S2, ... at unit cost 1, the quantities all 2 ("flat"),
\* growing with the row ("rising"), or 2 for the first TopN rows and 0 after
\* them ("tail0")
ChartShapes == {"flat", "rising", "tail0"}

ChartRow(i, shape) ==
    [symbol |-> "S" \o ToString(i),
     shares |-> CASE shape = "flat" -> 2
                  [] shape = "rising" -> i
                  [] OTHER -> IF i <= TopN THEN 2 ELSE 0,
     cost |-> 1]

ChartLists == {[i \in 1..n |-> ChartRow(i, shape)] : n \in 0..MaxChartRows, shape \in ChartShapes}

\* the provider's answers during a build of a long list: every lookup gives
\* the price MaxPrice, or the lookups of the first row, of the rows after the
\* TopN-th, or of every row fail
ChartAnswers(rows) ==
    {[i \in 1..Len(rows) |->
         IF i \in failing THEN [kind |-> "raise", rmp |-> NoneV, cpc |-> NoneV]
         ELSE [kind |-> "meta", rmp |-> Some(MaxPrice), cpc |-> NoneV]] :
       failing \in {{}, {1}, {i \in 1..Len(rows) : i > TopN}, 1..Len(rows)}}

InitChart ==
    /\ prog = "portfolio"
    /\ now = 0
    /\ cache = <<>>
    /\ last = NoCall
    /\ holdings \in ChartLists
    /\ quotes = <<>>
    /\ snap = <<>>
    /\ config = <<>>
    /\ ctx = <<>>
    /\ lock = NoneV
    /\ thr = <<>>

\* portfolio.py builds a snapshot of a long list of holdings
PBuildChart ==
    /\ prog = "portfolio"
    /\ \E r \in {PResolveRows(cache, now, BuildCoreRows(holdings), resps) :
                     resps \in ChartAnswers(holdings)} :
          /\ cache' = r.cache
          /\ snap' = <<PSnapshot(BuildCoreRows(holdings), r.items)>>
    /\ UNCHANGED <<prog, now, last, holdings, quotes, config, ctx, lock, thr>>

NextChart == TickAgg \/ PBuildChart

SpecChart == InitChart /\ [][NextChart]_vars

UsSymbols == <<"XLU", "VOO", "KO", "TSM">>
UsPositions == {[shares |-> 3, cost |-> 1], [shares |-> 2, cost |-> 1], [shares |-> 0, cost |-> 0]}
Increasing(n) == {idx \in [1..n -> 1..Len(UsSymbols)] : \A i \in 1..n - 1 : idx[i] < idx[i + 1]}
UsPortfolios ==
    UNION {{[i \in 1..n |-> [symbol |-> UsSymbols[idx[i]],
                             shares |-> pos[i].shares, cost |-> pos[i].cost]] :
               idx \in Increasing(n), pos \in [1..n -> UsPositions]} :
           n \in 0..MaxHoldings}

\* EXCLUDED_ETFS_US, US_GROUP_POWER, US_GROUP_INDEX and US_GROUP_DEFENSE: as in
\* the source where every symbol is in at most one sector set, and with symbols
\* that are in two sector sets
GroupConfigs ==
    {[excluded |-> {"VOO", "XLU"}, power |-> {"XLU"}, index |-> {"VOO"}, defense |-> {"KO"}],
     [excluded |-> {"VOO", "XLU"}, power |-> {"XLU", "KO"}, index |-> {"VOO", "XLU"},
      defense |-> {"KO"}]}

\* TW_PORTFOLIO, SHORT_TERM_BONDS, LONG_TERM_BONDS, CRYPTO_PORTFOLIO,
\* GOLD_PORTFOLIO and CASH_HOLDINGS: all empty, one TW row alone, or one row
\* each and three currencies of cash
OtherLists ==
    {[tw |-> <<>>, short_term_bonds |-> <<>>, long_term_bonds |-> <<>>, crypto |-> <<>>,
      gold |-> <<>>, cash |-> <<>>],
     [tw |-> <<[symbol |-> "0050.TW", shares |-> 2, cost |-> 1]>>,
      short_term_bonds |-> <<>>, long_term_bonds |-> <<>>, crypto |-> <<>>,
      gold |-> <<>>, cash |-> <<>>],
     [tw |-> <<[symbol |-> "0050.TW", shares |-> 2, cost |-> 1]>>,
      short_term_bonds |-> <<[symbol |-> "SGOV", shares |-> 2, cost |-> 1]>>,
      long_term_bonds |-> <<[symbol |-> "TLT", shares |-> 2, cost |-> 1]>>,
      crypto |-> <<[symbol |-> "BTC", shares |-> 2, cost |-> 1]>>,
      gold |-> <<[symbol |-> "GLD", shares |-> 2, cost |-> 1]>>,
      cash |-> <<[currency |-> "TWD", amount |-> 2], [currency |-> "USD", amount |-> 2],
                 [currency |-> "AUD", amount |-> 2]>>]}

\* the configurations: every US list under every grouping beside empty other
\* lists, the US lists of at most one row beside the other lists, and the TW
\* row alone
Configs ==
    {[us |-> us, groups |-> g] @@ o :
        us \in UsPortfolios, g \in GroupConfigs, o \in {x \in OtherLists : x.tw = <<>>}}
    \cup {[us |-> us, groups |-> g] @@ o :
             us \in {x \in UsPortfolios : Len(x) <= 1},
             g \in {x \in GroupConfigs : x.power \cap x.index = {}},
             o \in {x \in OtherLists : x.cash # <<>>}}
    \cup {[us |-> <<>>, groups |-> g] @@ o :
             g \in {x \in GroupConfigs : x.power \cap x.index = {}},
             o \in {x \in OtherLists : x.tw # <<>> /\ x.cash = <<>>}}

\* the symbols the provider is asked for
ProviderSymbols ==
    {UsSymbols[i] : i \in 1..Len(UsSymbols)}
       \cup {"USDTWD=X", "USDTWD", "AUDTWD=X", "AUDTWD", "0050.TW", "0050.TWO", "0050",
             "0050.TPE", "SGOV", "TLT", "BTC-USD", "GLD"}

\* the provider answers with a series ending in the close p
Close(p) == [raise |-> FALSE, df |-> Frame(TRUE, <<Some(p)>>)]

\* the symbols whose closing price the cache holds
Known(c) == {s \in ProviderSymbols : HistoryKey(s, "7d") \in DOMAIN c}

\* the symbols get_tw_stock_price tries for the TW row, in the order of the source
TwSymbols == <<"0050.TW", "0050.TWO", "0050", "0050.TPE">>

\* What the provider answers during one build: the US symbols in up resolve, the
\* others fail; the USD/TWD rate resolves under both of its symbols, under the
\* bare one alone, or under none; of the TW symbols those from the first-th on
\* resolve, each to a price of its own; the remaining symbols all resolve or
\* all fail.  Answers that are not asked for, the cache holding the symbol's
\* price or no list holding the symbol, are left out of the choice.
Markets(cfg, c) ==
    {[s \in ProviderSymbols |->
         IF \E i \in 1..Len(UsSymbols) : UsSymbols[i] = s
         THEN IF s \in up THEN Close(400) ELSE Raises
         ELSE IF s = "USDTWD=X" THEN IF rate = "both" THEN Close(30) ELSE Raises
         ELSE IF s = "USDTWD" THEN IF rate # "none" THEN Close(31) ELSE Raises
         ELSE IF s = "AUDTWD=X" THEN IF others THEN Close(20) ELSE Raises
         ELSE IF \E i \in 1..Len(TwSymbols) : TwSymbols[i] = s
         THEN LET i == CHOOSE j \in 1..Len(TwSymbols) : TwSymbols[j] = s
              IN  IF i >= first THEN Close(i) ELSE Raises
         ELSE IF others THEN Close(1) ELSE Raises] :
       up \in SUBSET ({cfg.us[i].symbol : i \in 1..Len(cfg.us)} \ Known(c)),
       rate \in IF "USDTWD=X" \in Known(c) THEN {"none"}
                ELSE IF "USDTWD" \in Known(c) THEN {"both", "none"}
                ELSE {"both", "bare", "none"},
       first \in IF cfg.tw = <<>> \/ TwSymbols[1] \in Known(c) THEN {Len(TwSymbols) + 1}
                 ELSE IF cfg.cash # <<>> THEN {1, Len(TwSymbols) + 1}
                 ELSE 1..Len(TwSymbols) + 1,
       others \in IF cfg.cash = <<>> \/ "GLD" \in Known(c) THEN {FALSE} ELSE BOOLEAN}

InitCtx ==
    /\ prog = "web"
    /\ now = 0
    /\ cache = <<>>
    /\ last = NoCall
    /\ holdings = <<>>
    /\ quotes = <<>>
    /\ snap = <<>>
    /\ config \in Configs
    /\ ctx = <<>>
    /\ lock = NoneV
    /\ thr = <<>>

\* web.py serves a request, or exports the page: one call of build_context
BuildContext ==
    /\ prog = "web" /\ config # <<>>
    /\ \E hide_etf \in BOOLEAN :
       \E r \in {BuildCtx(cache, now, config, hide_etf, market) : market \in Markets(config, cache)} :
          /\ cache' = r.cache
          /\ ctx' = <<r.ctx>>
    /\ UNCHANGED <<prog, now, last, holdings, quotes, snap, config, lock, thr>>

NextCtx == BuildContext

SpecCtx == InitCtx /\ [][NextCtx]_vars

\* ---------------------------------------- every snapshot build together
InitBuild == InitAgg \/ InitCtx

NextBuild == TickAgg \/ PBuild \/ WProcess \/ BuildContext

SpecBuild == InitBuild /\ [][NextBuild]_vars
\* -------------------------------------------- the threaded specification
\* Requests are served by threads that share _cache and _cache_lock.  A thread
\* runs one lookup at a time: cached_close(symbol) in portfolio.py,
\* cached_history(symbol, period="7d", ttl=_TTL_FAST) in web.py.  Its steps are
\* the lock acquisitions and releases of _get_cache and _set_cache, the reading
\* of the clock and the remote lookup; pc says where it is:
\*   idle -> get_wait -> get_in -> clock -> done                  (fresh entry)
\*                                 clock -> fetching -> done      (lookup failed)
\*                                 clock -> fetching -> set_wait -> set_in -> done
Threads == {"t1", "t2"}
ThrSymbols == {"A"}
ThrInstants == {0, 60, 120}
ThrPrices == 1..MaxPrice

Idle == [pc |-> "idle", symbol |-> "", entry |-> NoneV, at |-> 0, value |-> NoneV,
         src |-> ""]

\* the cache key of a thread's lookup
ThrKey(symbol) == IF prog = "portfolio" THEN PriceKey(symbol) ELSE HistoryKey(symbol, "7d")

\* the remote lookup's outcomes as the value to store, None when there is
\* nothing to store: fetch_price_from_yahoo returned None, the yfinance lookup
\* raised
Fetched ==
    IF prog = "portfolio" THEN {NoneV} \cup {Some(p) : p \in ThrPrices}
    ELSE {NoneV, Some(Frame(TRUE, <<>>))} \cup {Some(Frame(TRUE, <<Some(p)>>)) : p \in ThrPrices}

\* the entry a thread stores: {"ts": now, "price": price} or {"ts": now, "data": df}
NewEntry(t, v) ==
    IF prog = "portfolio" THEN [ts |-> t, price |-> Some(v)] ELSE [ts |-> t, data |-> v]

\* the freshness test of the running program
ThrFresh(entry, t) ==
    IF prog = "portfolio" THEN PFresh(entry, t, TTL_FAST) ELSE WFresh(entry, t, TTL_FAST)

InitThr ==
    /\ prog \in {"portfolio", "web"}
    /\ now = 0
    /\ cache = <<>>
    /\ last = NoCall
    /\ holdings = <<>>
    /\ quotes = <<>>
    /\ snap = <<>>
    /\ config = <<>>
    /\ ctx = <<>>
    /\ lock = NoneV
    /\ thr = [i \in Threads |-> Idle]

TickThr ==
    /\ \E t \in ThrInstants : t > now /\ now' = t
    /\ UNCHANGED <<prog, cache, last, holdings, quotes, snap, config, ctx, lock, thr>>

\* a request calls cached_close / cached_history: key = (...), then _get_cache(key)
CallLookup(i) ==
    /\ thr[i].pc = "idle"
    /\ \E symbol \in ThrSymbols :
          thr' = [thr EXCEPT ![i] = [Idle EXCEPT !.pc = "get_wait", !.symbol = symbol]]
    /\ UNCHANGED <<prog, now, cache, last, holdings, quotes, snap, config, ctx, lock>>

\* the lock taken whether or not another thread holds it
CanAcquire_Always(i) == TRUE

\* with _cache_lock: entered when no thread holds the lock
CanAcquire(i) == lock = NoneV

\* _get_cache: with _cache_lock
GetAcquire(i) ==
    /\ thr[i].pc = "get_wait"
    /\ CanAcquire(i)
    /\ lock' = Some(i)
    /\ thr' = [thr EXCEPT ![i].pc = "get_in"]
    /\ UNCHANGED <<prog, now, cache, last, holdings, quotes, snap, config, ctx>>

\* _get_cache returning with the lock still held
GetReturn_KeepsLock(i) ==
    /\ thr[i].pc = "get_in"
    /\ thr' = [thr EXCEPT ![i].pc = "clock",
                          ![i].entry = GetCache(cache, ThrKey(thr[i].symbol))]
    /\ UNCHANGED <<prog, now, cache, last, holdings, quotes, snap, config, ctx, lock>>

\* _get_cache: return _cache.get(key), leaving the with block
GetReturn(i) ==
    /\ thr[i].pc = "get_in"
    /\ lock' = NoneV
    /\ thr' = [thr EXCEPT ![i].pc = "clock",
                          ![i].entry = GetCache(cache, ThrKey(thr[i].symbol))]
    /\ UNCHANGED <<prog, now, cache, last, holdings, quotes, snap, config, ctx>>

\* now = _now() and the freshness test: return the entry's value, or go on to
\* the remote lookup
ReadClock(i) ==
    /\ thr[i].pc = "clock"
    /\ thr' = [thr EXCEPT ![i].at = now,
                          ![i].pc = IF ThrFresh(thr[i].entry, now) THEN "done" ELSE "fetching",
                          ![i].src = IF ThrFresh(thr[i].entry, now) THEN "fresh" ELSE ""]
    /\ UNCHANGED <<prog, now, cache, last, holdings, quotes, snap, config, ctx, lock>>

\* the remote lookup returns: with something to store the thread goes on to
\* _set_cache, otherwise it returns the entry it read, if any
FetchReturn(i) ==
    /\ thr[i].pc = "fetching"
    /\ \E v \in Fetched :
          thr' = [thr EXCEPT ![i].value = IF v = NoneV THEN NoneV
                                          ELSE Some(NewEntry(thr[i].at, v[1])),
                             ![i].pc = IF v = NoneV THEN "done" ELSE "set_wait",
                             ![i].src = IF v # NoneV THEN "remote"
                                        ELSE IF thr[i].entry # NoneV THEN "stale" ELSE "none"]
    /\ UNCHANGED <<prog, now, cache, last, holdings, quotes, snap, config, ctx, lock>>

\* _set_cache: with _cache_lock
SetAcquire(i) ==
    /\ thr[i].pc = "set_wait"
    /\ CanAcquire(i)
    /\ lock' = Some(i)
    /\ thr' = [thr EXCEPT ![i].pc = "set_in"]
    /\ UNCHANGED <<prog, now, cache, last, holdings, quotes, snap, config, ctx>>

\* _set_cache: _cache[key] = value, leaving the with block
SetReturn(i) ==
    /\ thr[i].pc = "set_in"
    /\ cache' = SetCache(cache, ThrKey(thr[i].symbol), thr[i].value[1])
    /\ lock' = NoneV
    /\ thr' = [thr EXCEPT ![i].pc = "done"]
    /\ UNCHANGED <<prog, now, last, holdings, quotes, snap, config, ctx>>

\* the lookup returns to the request
ReturnLookup(i) ==
    /\ thr[i].pc = "done"
    /\ thr' = [thr EXCEPT ![i] = Idle]
    /\ UNCHANGED <<prog, now, cache, last, holdings, quotes, snap, config, ctx, lock>>

NextThr ==
    \/ TickThr
    \/ \E i \in Threads :
          \/ CallLookup(i) \/ GetAcquire(i) \/ GetReturn(i) \/ ReadClock(i)
          \/ FetchReturn(i) \/ SetAcquire(i) \/ SetReturn(i) \/ ReturnLookup(i)

SpecThr == InitThr /\ [][NextThr]_vars

\* What the scheduling gives a running thread: a thread that holds the lock
\* leaves its with block, a thread past _get_cache reads the clock, a remote
\* lookup returns, and a thread that finds the lock free again and again gets it
ThrFairness ==
    \A i \in Threads :
       /\ WF_vars(GetReturn(i)) /\ WF_vars(ReadClock(i))
       /\ WF_vars(FetchReturn(i)) /\ WF_vars(SetReturn(i))
       /\ SF_vars(GetAcquire(i)) /\ SF_vars(SetAcquire(i))

SpecThrFair == SpecThr /\ ThrFairness
\* ================================================================ claims
PCall == prog = "portfolio" /\ last.op = "cached_close"
WCall == prog = "web" /\ last.op = "cached_close"

\* C1: portfolio.py cached_close with an entry younger than ttl returns that
\* entry's price without calling fetch_price_from_yahoo; with an entry aged ttl
\* or more it calls fetch_price_from_yahoo.
C1_FreshEntryNoFetch ==
    (PCall /\ last.entry # NoneV) =>
        LET e == last.entry[1]
        IN  /\ last.at - e.ts < last.ttl => (last.ret = Num(e.price[1]) /\ last.fetches = 0)
            /\ last.at - e.ts >= last.ttl => last.fetches = 1

C1_Witness ==
    /\ PCall /\ last.entry # NoneV
    /\ last.at - last.entry[1].ts > 0 /\ last.at - last.entry[1].ts < last.ttl
    /\ last.ret = Num(last.entry[1].price[1]) /\ last.fetches = 0

\* C2 as claimed: web.py cached_close with a 7d entry younger than ttl performs no
\* remote lookup, whatever the cached series contains.
C2_FreshEntryNoLookup ==
    (WCall /\ last.log[1].entry # NoneV /\ last.at - last.log[1].entry[1].ts < last.ttl)
        => last.fetches = 0

\* C2 as amended: web.py cached_close with a 7d entry younger than ttl whose
\* series has a non-null closing price returns the last such price from the cache
\* and performs no remote lookup, for neither window.  With a 7d entry younger
\* than ttl whose series has no closing price it does no remote 7d lookup and goes
\* on to the 1mo window, where it asks the provider unless the 1mo entry is
\* younger than max(ttl, 300).
C2_FreshUsableEntryNoLookup ==
    (WCall /\ last.log[1].entry # NoneV /\ last.at - last.log[1].entry[1].ts < last.ttl)
        => LET data == last.log[1].entry[1].data
           IN  /\ LastClose(data) # NoneV
                     => /\ last.ret = Num(LastClose(data)[1])
                        /\ last.fetches = 0
                        /\ Len(last.log) = 1
               /\ LastClose(data) = NoneV
                     => /\ last.log[1].resp = NoneV
                        /\ Len(last.log) = 2
                        /\ last.log[2].resp = NoneV
                              <=> /\ last.log[2].entry # NoneV
                                  /\ last.at - last.log[2].entry[1].ts
                                        < Max(last.ttl, TTL_NORMAL)

C2_Witness ==
    /\ WCall /\ last.log[1].entry # NoneV
    /\ last.at - last.log[1].entry[1].ts > 0
    /\ last.at - last.log[1].entry[1].ts < last.ttl
    /\ LastClose(last.log[1].entry[1].data) # NoneV
    /\ last.ret = Num(LastClose(last.log[1].entry[1].data)[1])
    /\ last.fetches = 0

\* C3: when the remote fetch fails (portfolio.py: fetch_price_from_yahoo yields
\* None; web.py: the lookup raises) and the cache holds an entry for the key, of
\* any age, the lookup returns the cached value: the cached price, or the cached
\* frame and, when that frame has a closing price, that price and not "N/A".
C3_StaleIfError ==
    /\ (PCall /\ last.resp # NoneV /\ FetchPriceFromYahoo(last.resp[1]) = NoneV
              /\ last.entry # NoneV)
          => last.ret = Num(last.entry[1].price[1])
    /\ WCall =>
          \A i \in 1..Len(last.log) :
             LET l == last.log[i]
             IN  (l.resp = Some(Raises) /\ l.entry # NoneV)
                    => /\ l.df = l.entry[1].data
                       /\ LastClose(l.entry[1].data) # NoneV
                             => last.ret = Num(LastClose(l.entry[1].data)[1])

C3_Witness ==
    /\ PCall /\ last.resp # NoneV /\ FetchPriceFromYahoo(last.resp[1]) = NoneV
    /\ last.entry # NoneV /\ last.at - last.entry[1].ts > last.ttl
    /\ last.ret = Num(last.entry[1].price[1])

\* C4 as claimed: web.py cached_close, when the cache holds a series with a
\* closing price for one of the windows and the provider answers every window it
\* is asked for with an empty series, returns a cached price and not "N/A".
C4_EmptyAnswerKeepsLastPrice ==
    (WCall /\ (\E i \in 1..Len(last.log) :
                  /\ last.log[i].entry # NoneV
                  /\ LastClose(last.log[i].entry[1].data) # NoneV)
           /\ (\A i \in 1..Len(last.log) :
                  last.log[i].resp \in {NoneV, Some([raise |-> FALSE, df |-> Frame(TRUE, <<>>)])}))
        => last.ret # NA

\* the request of portfolio.py failed or its answer holds no price at all
NoPrice(resp) == resp.kind # "meta" \/ (resp.rmp = NoneV /\ resp.cpc = NoneV)

\* the lookup of web.py raised or its answer holds no closing price
NoClose(resp) == resp.raise \/ LastClose(resp.df) = NoneV

\* C5: when the remote fetch fails and the cache holds no entry for the symbol,
\* cached_close returns "N/A" and the cache holds no usable price for the symbol
\* afterwards (portfolio.py and web.py).
C5_NoEntryNotAvailable ==
    /\ (PCall /\ last.entry = NoneV /\ last.resp # NoneV /\ NoPrice(last.resp[1]))
          => /\ last.ret = NA
             /\ PriceKey(last.symbol) \notin DOMAIN cache
    /\ (WCall /\ \A i \in 1..Len(last.log) :
                    /\ last.log[i].entry = NoneV
                    /\ last.log[i].resp # NoneV
                    /\ NoClose(last.log[i].resp[1]))
          => /\ last.ret = NA
             /\ \A period \in {"7d", "1mo"} :
                   LET key == HistoryKey(last.symbol, period)
                   IN  key \in DOMAIN cache => LastClose(cache[key].data) = NoneV

C5_Witness ==
    /\ WCall /\ Len(last.log) = 2
    /\ \A i \in 1..2 : last.log[i].entry = NoneV /\ last.log[i].resp = Some(Raises)
    /\ last.ret = NA
    /\ cache = <<>>

\* C6: web.py cached_close looks up 7d first, with the caller's ttl; it looks up
\* 1mo only when the 7d frame has no closing price, with ttl max(ttl, 300), not
\* shorter than the 7d one; it issues at most one remote lookup per window.
C6_TwoWindowsInOrder ==
    WCall =>
        /\ Len(last.log) \in {1, 2}
        /\ last.log[1].period = "7d" /\ last.log[1].ttl = last.ttl
        /\ Len(last.log) = 2 <=> LastClose(last.log[1].df) = NoneV
        /\ Len(last.log) = 2 =>
              /\ last.log[2].period = "1mo"
              /\ last.log[2].ttl = Max(last.ttl, TTL_NORMAL)
              /\ last.log[2].ttl >= last.log[1].ttl
        /\ last.fetches <= Len(last.log)

C6_Witness ==
    /\ WCall /\ Len(last.log) = 2 /\ last.fetches = 2 /\ last.ttl = TTL_FAST
    /\ last.log[2].ttl = TTL_NORMAL /\ last.ret # NA

\* C7 as claimed: a price of exactly 0 reported by the provider is the resolved
\* price: portfolio.py cached_close returns 0 when its fetch is answered with
\* regularMarketPrice 0, web.py cached_close returns 0 when the frame it reads
\* ends in a close of 0.
C7_ZeroIsAPrice ==
    /\ (PCall /\ last.resp # NoneV /\ last.resp[1].kind = "meta"
              /\ last.resp[1].rmp = Some(0))
          => last.ret = Num(0)
    /\ (WCall /\ LastClose(last.log[Len(last.log)].df) = Some(0)) => last.ret = Num(0)

Items(s) == IF s.kind = "portfolio" THEN s.core_items ELSE s.table

\* C8 as claimed: every item whose price resolved to p has market value
\* p * quantity, whatever its unit cost (portfolio.py and web.py).
C8_MarketValueIsPriceTimesQuantity ==
    snap # <<>> =>
        \A i \in 1..Len(Items(snap[1])) :
           LET it == Items(snap[1])[i]
           IN  it.price # NA => it.market_value = it.price.val * it.shares

\* C9 as claimed: every item of a portfolio.py snapshot, resolved or not, has
\* profit = market value - unit cost * quantity.
C9_ProfitOfEveryItem ==
    (snap # <<>> /\ snap[1].kind = "portfolio") =>
        \A i \in 1..Len(snap[1].core_items) :
           LET it == snap[1].core_items[i]
           IN  it.profit = it.market_value - it.cost * it.shares

\* C9 as amended: every item of a portfolio.py snapshot whose price resolved has
\* profit = market value - unit cost * quantity; an unresolved item has profit 0.
C9_ProfitOfResolvedItem ==
    (snap # <<>> /\ snap[1].kind = "portfolio") =>
        \A i \in 1..Len(snap[1].core_items) :
           LET it == snap[1].core_items[i]
           IN  /\ it.price # NA => it.profit = it.market_value - it.cost * it.shares
               /\ it.price = NA => it.profit = 0 /\ it.market_value = 0

C9_Witness ==
    /\ snap # <<>> /\ snap[1].kind = "portfolio"
    /\ \E i \in 1..Len(snap[1].core_items) :
          LET it == snap[1].core_items[i]
          IN  /\ it.price # NA /\ it.cost * it.shares > 0 /\ it.market_value > 0
              /\ it.profit = it.market_value - it.cost * it.shares
    /\ \E i \in 1..Len(snap[1].core_items) :
          LET it == snap[1].core_items[i]
          IN  it.price = NA /\ it.cost * it.shares > 0 /\ it.profit = 0

\* the items whose price resolved
Resolved(items) == SelectSeq(items, LAMBDA it : it.price # NA)

\* C10 as claimed: every configured holding yields one item; an unresolved item
\* has market value 0, profit 0, profit percentage 0 and the price string "N/A",
\* and adds nothing to the group's total market value and total profit, which are
\* those of the resolved items alone (portfolio.py and web.py).
C10_UnresolvedCountsForNothing ==
    snap # <<>> =>
        LET s == snap[1]
            its == Items(s)
            mv == Sum(MarketValues(Resolved(its)))
            profit == mv - Sum(CostTotals(Resolved(its)))
        IN  /\ Len(its) = Len(holdings)
            /\ \A i \in 1..Len(its) :
                  its[i].price = NA =>
                     /\ its[i].market_value = 0
                     /\ its[i].profit_pct = ZeroPct
                     /\ its[i].price_str = "N/A"
                     /\ s.kind = "portfolio" => its[i].profit = 0
            /\ s.kind = "portfolio" => s.core_total_mv = mv /\ s.core_total_profit = profit
            /\ s.kind = "web" => s.total_market_value_usd = mv /\ s.total_profit_usd = profit

\* C11 as claimed: every item, resolved or not, has profit percentage
\* (market value - unit cost * quantity) / (unit cost * quantity) * 100 when
\* unit cost * quantity > 0, and 0 when unit cost * quantity = 0 (portfolio.py and
\* web.py).
C11_ProfitPctOfEveryItem ==
    snap # <<>> =>
        \A i \in 1..Len(Items(snap[1])) :
           LET it == Items(snap[1])[i]
               cost_total == it.cost * it.shares
           IN  /\ cost_total > 0
                     => PctEq(it.profit_pct, Pct((it.market_value - cost_total) * 100, cost_total))
               /\ cost_total = 0 => PctEq(it.profit_pct, ZeroPct)

\* C11 as amended: every item whose price resolved has profit percentage
\* (market value - unit cost * quantity) / (unit cost * quantity) * 100 when
\* unit cost * quantity > 0, and 0 when unit cost * quantity = 0; an item whose
\* price did not resolve has profit percentage 0 (portfolio.py and web.py).
C11_ProfitPctOfResolvedItem ==
    snap # <<>> =>
        \A i \in 1..Len(Items(snap[1])) :
           LET it == Items(snap[1])[i]
               cost_total == it.cost * it.shares
           IN  /\ (it.price # NA /\ cost_total > 0)
                     => PctEq(it.profit_pct, Pct((it.market_value - cost_total) * 100, cost_total))
               /\ (it.price # NA /\ cost_total = 0) => PctEq(it.profit_pct, ZeroPct)
               /\ it.price = NA => PctEq(it.profit_pct, ZeroPct)

C11_Witness ==
    /\ snap # <<>> /\ snap[1].kind = "web"
    /\ \E i \in 1..Len(snap[1].table) :
          LET it == snap[1].table[i]
          IN  /\ it.price # NA /\ it.cost * it.shares > 0
              /\ PctEq(it.profit_pct, Pct(-100, 1))
    /\ \E i \in 1..Len(snap[1].table) :
          LET it == snap[1].table[i]
          IN  it.price # NA /\ it.cost * it.shares = 0 /\ it.shares > 0
                 /\ PctEq(it.profit_pct, ZeroPct)

Sectors == {"power", "index", "defense", "tech_other"}

\* the one sector of a symbol: the first of the sets power, index, defense that
\* holds it, and tech_other when none does
SectorOf(sym, groups) ==
    IF sym \in groups.power THEN "power"
    ELSE IF sym \in groups.index THEN "index"
    ELSE IF sym \in groups.defense THEN "defense"
    ELSE "tech_other"

\* the four sector totals of a build_context result
SectorTotals(c) ==
    [s \in Sectors |->
        CASE s = "power" -> c.power_total_usd
          [] s = "index" -> c.index_total_usd
          [] s = "defense" -> c.defense_total_usd
          [] OTHER -> c.tech_other_total_usd]

\* C12: the reported total market value of a group is the sum of the market
\* values of its items: core_total_mv of portfolio.py, total_market_value_usd of
\* process_usd_asset_portfolio, us_core_total_market_value over the rows whose
\* symbol is not excluded; each of the four US sector totals is the sum over the
\* rows whose one sector it is, so that the four add up to us_total_market_value,
\* also when a symbol is in several of the configured sets.
C12_GroupTotalsAreSums ==
    /\ (snap # <<>> /\ snap[1].kind = "portfolio")
          => snap[1].core_total_mv = Sum(MarketValues(snap[1].core_items))
    /\ (snap # <<>> /\ snap[1].kind = "web")
          => snap[1].total_market_value_usd = Sum(MarketValues(snap[1].table))
    /\ ctx # <<>> =>
          LET c == ctx[1]
              rows == c.us_data.table
              g == config.groups
          IN  /\ Len(rows) = Len(config.us)
              /\ c.us_total_market_value = Sum(MarketValues(rows))
              /\ c.us_core_total_market_value
                    = Sum(MarketValues(SelectSeq(rows, LAMBDA it : it.symbol \notin g.excluded)))
              /\ \A s \in Sectors :
                    SectorTotals(c)[s]
                       = Sum(MarketValues(SelectSeq(rows, LAMBDA it : SectorOf(it.symbol, g) = s)))
              /\ c.power_total_usd + c.index_total_usd + c.defense_total_usd
                    + c.tech_other_total_usd = c.us_total_market_value

C12_Witness ==
    /\ ctx # <<>>
    /\ \E i \in 1..Len(ctx[1].us_data.table) :
          LET it == ctx[1].us_data.table[i]
          IN  /\ it.symbol \in config.groups.power \cap config.groups.index
              /\ it.symbol \in config.groups.excluded
              /\ it.market_value > 0
    /\ ctx[1].power_total_usd > 0
    /\ ctx[1].us_core_total_market_value > 0
    /\ ctx[1].us_total_market_value
          = ctx[1].power_total_usd + ctx[1].us_core_total_market_value

RECURSIVE SumPcts(_)
\* the sum of a sequence of percentages, as a fraction
SumPcts(pcts) ==
    IF pcts = <<>> THEN ZeroPct
    ELSE LET a == Head(pcts)
             b == SumPcts(Tail(pcts))
         IN  Pct(a.num * b.den + b.num * a.den, a.den * b.den)

\* C13: in build_context every US row's weight_all_pct is its market value /
\* total US market value * 100, and the weights of all the rows add up to 100,
\* when the total is > 0; weight_core_pct is market value / core total * 100 for
\* a row that is not excluded, these adding up to 100, when the core total is
\* > 0, and is 0 for every excluded ETF row; two holdings worth 1200 and 800 get
\* 60.00% and 40.00%.
C13_WeightsOfUsRows ==
    ctx # <<>> =>
        LET c == ctx[1]
            rows == c.us_table
            total == c.us_total_market_value
            core == c.us_core_total_market_value
            core_rows == SelectSeq(rows, LAMBDA it : ~it.is_excluded)
        IN  /\ \A i \in 1..Len(rows) :
                  LET it == rows[i]
                  IN  /\ it.is_excluded <=> it.symbol \in config.groups.excluded
                      /\ total > 0
                            => PctEq(it.weight_all_pct, Pct(it.market_value * 100, total))
                      /\ (~it.is_excluded /\ core > 0)
                            => PctEq(it.weight_core_pct, Pct(it.market_value * 100, core))
                      /\ it.is_excluded => PctEq(it.weight_core_pct, ZeroPct)
            /\ (total > 0 /\ ~c.initial_hide_etf)
                  => PctEq(SumPcts([i \in 1..Len(rows) |-> rows[i].weight_all_pct]), Pct(100, 1))
            /\ core > 0
                  => PctEq(SumPcts([i \in 1..Len(core_rows) |-> core_rows[i].weight_core_pct]),
                           Pct(100, 1))
            /\ \A i, j \in 1..Len(rows) :
                  (rows[i].market_value = 1200 /\ rows[j].market_value = 800 /\ total = 2000)
                     => /\ rows[i].weight_all_pct_str = "60.00%"
                        /\ rows[j].weight_all_pct_str = "40.00%"

C13_Witness ==
    /\ ctx # <<>> /\ ~ctx[1].initial_hide_etf
    /\ Len(ctx[1].us_table) = 2
    /\ ctx[1].us_total_market_value = 2000
    /\ ctx[1].us_table[1].market_value = 1200 /\ ctx[1].us_table[2].market_value = 800
    /\ ctx[1].us_table[1].weight_all_pct_str = "60.00%"
    /\ ctx[1].us_table[2].weight_all_pct_str = "40.00%"
    /\ ctx[1].us_table[1].is_excluded /\ ctx[1].us_table[1].weight_core_pct_str = "0.00%"
    /\ ~ctx[1].us_table[2].is_excluded /\ ctx[1].us_table[2].weight_core_pct_str = "100.00%"

\* a percentage computed without a division fault (a fault is a denominator of
\* 0) that is exactly 0 when the quantity it is taken of is 0
SafePct(p, denominator) == p.den # 0 /\ (denominator = 0 => p.num = 0)

\* the percentages of one result of process_usd_asset_portfolio
SafeGroup(data) ==
    /\ \A i \in 1..Len(data.table) :
          SafePct(data.table[i].profit_pct, data.table[i].cost * data.table[i].shares)
    /\ SafePct(data.total_profit_pct, data.total_cost_usd)

\* C14: no percentage is computed with a division by zero: every item profit
\* percentage, group total profit percentage, grand total profit percentage and
\* row weight has a value, and is exactly 0 when its denominator (the cost total,
\* or the group's market value) is 0, for every input: all prices unresolved,
\* all quantities 0, all costs 0, an empty or a fully excluded group.
C14_NoDivisionByZero ==
    /\ (snap # <<>> /\ snap[1].kind = "portfolio") =>
          /\ \A i \in 1..Len(snap[1].core_items) :
                LET it == snap[1].core_items[i]
                IN  SafePct(it.profit_pct, it.cost * it.shares)
          /\ SafePct(snap[1].core_total_pct, snap[1].core_total_cost)
    /\ (snap # <<>> /\ snap[1].kind = "web") => SafeGroup(snap[1])
    /\ ctx # <<>> =>
          LET c == ctx[1]
          IN  /\ SafeGroup(c.us_data) /\ SafeGroup(c.short_term_bonds)
              /\ SafeGroup(c.long_term_bonds) /\ SafeGroup(c.crypto) /\ SafeGroup(c.gold)
              /\ SafePct(c.us_total_profit_pct, c.us_total_cost)
              /\ SafePct(c.us_core_total_profit_pct, c.us_core_total_cost)
              /\ SafePct(c.tw_total_profit_pct, c.tw_total_cost)
              /\ SafePct(c.grand_total_profit_pct, c.grand_total_cost_twd)
              /\ \A i \in 1..Len(c.us_table) :
                    /\ SafePct(c.us_table[i].weight_all_pct, c.us_total_market_value)
                    /\ SafePct(c.us_table[i].weight_core_pct, c.us_core_total_market_value)
                    /\ c.us_total_market_value = 0
                          => c.us_table[i].weight_all_pct_str = "0.00%"
              /\ \A i \in 1..Len(c.tw_table) :
                    /\ SafePct(c.tw_table[i].profit_pct,
                               c.tw_table[i].cost * c.tw_table[i].shares)
                    /\ c.tw_total_market_value = 0 => c.tw_table[i].weight_str = "0.00%"

C14_Witness ==
    /\ ctx # <<>>
    /\ Len(ctx[1].us_table) = 2
    /\ \A i \in 1..2 : ctx[1].us_table[i].shares = 0 /\ ctx[1].us_table[i].cost = 0
                            /\ ctx[1].us_table[i].price # NA
                            /\ ctx[1].us_table[i].weight_all_pct = ZeroPct
    /\ ctx[1].us_core_total_cost = 0 /\ ctx[1].us_core_total_profit_pct = ZeroPct
    /\ ctx[1].grand_total_cost_twd = 0 /\ ctx[1].grand_total_profit_pct = ZeroPct

\* the provider's answers the two builds of C15 are compared over: a failure
\* and a price
AltResponses ==
    {r \in BuildResponses : r.kind = "raise" \/ (r.rmp = Some(MaxPrice) /\ r.cpc = NoneV)}

\* the rows of a snapshot other than those of symbol s
OtherRows(items, s) == SelectSeq(items, LAMBDA it : it.symbol # s)

\* the snapshot portfolio.py builds in this state when the provider answers resps
PBuildWith(resps) ==
    PSnapshot(BuildCoreRows(holdings),
              PResolveRows(cache, now, BuildCoreRows(holdings), resps).items)

\* resps with the answer r for every row of symbol s
AnswerFor(resps, s, r) ==
    [i \in 1..Len(holdings) |-> IF holdings[i].symbol = s THEN r ELSE resps[i]]

\* C15: a snapshot build completes, with one item for each row, whatever the
\* lookups do, and an unresolved symbol degrades its own rows only: two builds
\* from the same state whose lookup outcomes differ for symbol s alone give every
\* row of another symbol the same price, market value, profit and profit
\* percentage (portfolio.py _build_portfolio_snapshot from every reachable cache;
\* web.py process_usd_asset_portfolio for every outcome of its price_fetcher).
C15_UnresolvedDegradesOwnRow ==
    /\ prog = "portfolio" =>
          \A s \in Symbols, r \in AltResponses, resps \in [1..Len(holdings) -> AltResponses] :
             LET b1 == PBuildWith(resps)
                 b2 == PBuildWith(AnswerFor(resps, s, r))
             IN  /\ Len(b1.core_items) = Len(holdings) /\ Len(b2.core_items) = Len(holdings)
                 /\ OtherRows(b1.core_items, s) = OtherRows(b2.core_items, s)
    /\ (prog = "web" /\ config = <<>>) =>
          \A s \in Symbols, q \in FetcherResults :
             LET b1 == ProcessUsdAssetPortfolio(holdings, quotes)
                 b2 == ProcessUsdAssetPortfolio(holdings, AnswerFor(quotes, s, q))
             IN  /\ Len(b1.table) = Len(holdings) /\ Len(b2.table) = Len(holdings)
                 /\ OtherRows(b1.table, s) = OtherRows(b2.table, s)

C15_Witness ==
    /\ prog = "portfolio" /\ snap # <<>> /\ cache # <<>>
    /\ \E s \in Symbols, r \in AltResponses, resps \in [1..Len(holdings) -> AltResponses] :
          LET b1 == PBuildWith(resps)
              b2 == PBuildWith(AnswerFor(resps, s, r))
          IN  /\ \E i \in 1..Len(b1.core_items) :
                    b1.core_items[i].symbol = s /\ b1.core_items[i].price # NA
              /\ \A i \in 1..Len(b2.core_items) :
                    b2.core_items[i].symbol = s => b2.core_items[i].price = NA
              /\ \E i \in 1..Len(b2.core_items) :
                    /\ b2.core_items[i].symbol # s
                    /\ b2.core_items[i].price # NA
                    /\ b2.core_items[i].market_value > 0
              /\ b1.core_total_mv > b2.core_total_mv

\* the thread is inside the with block of _get_cache or _set_cache
Inside(i) == thr[i].pc \in {"get_in", "set_in"}

\* the thread's call has started a remote lookup and has not returned yet
Refreshing(i) == thr[i].pc \in {"fetching", "set_wait", "set_in"}

\* C16: _get_cache and _set_cache exclude each other: at most one thread is
\* inside a cache read or write, and it is the one that holds the lock; a
\* _get_cache returns what the map holds for the key at that moment, absent or
\* a whole entry; the map changes only by the thread inside _set_cache storing
\* its whole entry under its key, so that after concurrent _set_cache calls the
\* entry stored is that of the call that got the lock last.
C16_CacheAccessIsExclusive ==
    /\ [](\A i, j \in Threads : (Inside(i) /\ Inside(j)) => i = j)
    /\ [](\A i \in Threads : Inside(i) <=> lock = Some(i))
    /\ [][\A i \in Threads :
             (thr[i].pc = "get_in" /\ thr'[i].pc # "get_in")
                => /\ thr'[i].entry = GetCache(cache, ThrKey(thr[i].symbol))
                   /\ cache' = cache]_vars
    /\ [][cache' # cache
             => \E i \in Threads :
                   /\ thr[i].pc = "set_in" /\ lock = Some(i) /\ thr'[i].pc = "done"
                   /\ \A j \in Threads \ {i} : thr'[j] = thr[j]
                   /\ DOMAIN cache' = DOMAIN cache \cup {ThrKey(thr[i].symbol)}
                   /\ \A k \in DOMAIN cache' :
                         cache'[k] = IF k = ThrKey(thr[i].symbol) THEN thr[i].value[1]
                                     ELSE cache[k]]_vars

C16_Witness ==
    /\ \E i, j \in Threads :
          /\ thr[i].pc = "set_in" /\ lock = Some(i)
          /\ thr[j].pc = "set_wait" /\ thr[j].symbol = thr[i].symbol
          /\ thr[j].value # thr[i].value
    /\ cache # <<>>

\* C17 as claimed: the reading of an entry and the writing of its refreshed
\* value by one call are one unit under the lock: when a call writes, the map
\* still holds for the key what the call read, and two calls for one key are
\* never both between the start of their remote lookup and their write.
C17_ReadAndWriteAreOneUnit ==
    /\ \A i \in Threads :
          thr[i].pc = "set_in" => GetCache(cache, ThrKey(thr[i].symbol)) = thr[i].entry
    /\ \A i, j \in Threads :
          (Refreshing(i) /\ Refreshing(j) /\ thr[i].symbol = thr[j].symbol) => i = j

\* C18: cache entries are never removed: a key of _cache is still a key after
\* every later step, and an entry older than its time-to-live is still there to
\* be read: a call that finds it and whose remote lookup fails gets its value
\* and leaves it in the cache as it was (portfolio.py and web.py).
C18_EntriesAreNeverRemoved ==
    /\ [][DOMAIN cache \subseteq DOMAIN cache']_vars
    /\ []((PCall /\ last.entry # NoneV /\ last.at - last.entry[1].ts >= last.ttl
                 /\ last.resp # NoneV /\ FetchPriceFromYahoo(last.resp[1]) = NoneV)
             => /\ last.ret = Num(last.entry[1].price[1])
                /\ GetCache(cache, PriceKey(last.symbol)) = last.entry)
    /\ [](WCall =>
             \A i \in 1..Len(last.log) :
                LET l == last.log[i]
                IN  (l.entry # NoneV /\ l.at - l.entry[1].ts >= l.ttl /\ l.resp = Some(Raises))
                       => /\ l.df = l.entry[1].data
                          /\ GetCache(cache, HistoryKey(last.symbol, l.period)) = l.entry)

C18_Witness ==
    /\ PCall /\ last.entry # NoneV /\ last.at - last.entry[1].ts > last.ttl
    /\ last.resp # NoneV /\ FetchPriceFromYahoo(last.resp[1]) = NoneV
    /\ last.ret = Num(last.entry[1].price[1])
    /\ Cardinality(DOMAIN cache) = 2
    /\ \A k \in DOMAIN cache : last.at - cache[k].ts > last.ttl

\* C19 as claimed: after a call that attempted a remote lookup for a key, the
\* key's entry, if there is one, carries the time of this attempt, whether the
\* attempt succeeded or failed.
C19_TimestampOfLatestAttempt ==
    /\ (PCall /\ last.fetches = 1 /\ PriceKey(last.symbol) \in DOMAIN cache)
          => cache[PriceKey(last.symbol)].ts = last.at
    /\ WCall =>
          \A i \in 1..Len(last.log) :
             LET l == last.log[i]
                 key == HistoryKey(last.symbol, l.period)
             IN  (l.resp # NoneV /\ key \in DOMAIN cache) => cache[key].ts = last.at

\* C19 as amended: after a call that attempted a remote lookup for a key, the
\* key's entry carries the time of this attempt when the attempt succeeded
\* (portfolio.py: it gave a price; web.py: it did not raise); when the attempt
\* failed the cache holds for the key what it held before, the entry with its
\* old timestamp or nothing.  A failed attempt so does not restart the
\* time-to-live: a call that finds an entry aged ttl or more attempts the lookup.
C19_TimestampOfLatestSuccess ==
    /\ (PCall /\ last.fetches = 1) =>
          LET price == FetchPriceFromYahoo(last.resp[1])
              after == GetCache(cache, PriceKey(last.symbol))
          IN  /\ price # NoneV => after = Some([ts |-> last.at, price |-> price])
              /\ price = NoneV => after = last.entry
    /\ (PCall /\ last.entry # NoneV /\ last.at - last.entry[1].ts >= last.ttl)
          => last.fetches = 1
    /\ WCall =>
          \A i \in 1..Len(last.log) :
             LET l == last.log[i]
                 after == GetCache(cache, HistoryKey(last.symbol, l.period))
             IN  /\ (l.resp # NoneV /\ ~l.resp[1].raise)
                       => after = Some([ts |-> last.at, data |-> l.resp[1].df])
                 /\ (l.resp # NoneV /\ l.resp[1].raise) => after = l.entry
                 /\ (l.entry # NoneV /\ l.at - l.entry[1].ts >= l.ttl) => l.resp # NoneV

C19_Witness ==
    /\ PCall /\ last.fetches = 1
    /\ FetchPriceFromYahoo(last.resp[1]) = NoneV
    /\ last.entry # NoneV /\ last.entry[1].ts < last.at
    /\ cache[PriceKey(last.symbol)].ts = last.entry[1].ts
    /\ last.at - cache[PriceKey(last.symbol)].ts >= last.ttl

\* the get_currency_rate calls of the last build_context: the one for the
\* exchange rate and one for every cash holding that is not in TWD
RateCalls ==
    <<ctx[1].exchange>> \o
    [i \in 1..Len(SelectSeq(ctx[1].cash_table, LAMBDA row : row.currency # "TWD")) |->
        LET row == SelectSeq(ctx[1].cash_table, LAMBDA r : r.currency # "TWD")[i]
        IN  [pair |-> row.currency \o "TWD", default |-> DEFAULT_RATE,
             ret |-> row.rate, calls |-> row.calls]]

\* C20: get_currency_rate(pair, default) looks up pair+"=X" first and the bare
\* pair second, each through cached_close with the one-hour time-to-live; it
\* returns the first price that is not "N/A" and does not try the convention
\* left; it returns the default when both are "N/A" and only then, and never
\* "N/A"; a cash holding in TWD is valued at rate 1 with no lookup.
C20_CurrencyRateFallsBack ==
    ctx # <<>> =>
       /\ \A i \in 1..Len(RateCalls) :
             LET g == RateCalls[i]
                 n == Len(g.calls)
             IN  /\ n \in 1..2
                 /\ g.calls[1].symbol = g.pair \o "=X"
                 /\ n = 2 => g.calls[2].symbol = g.pair
                 /\ \A j \in 1..n : g.calls[j].ttl = TTL_LONG /\ TTL_LONG = 3600
                 /\ n = 2 <=> g.calls[1].ret = NA
                 /\ g.calls[n].ret # NA => g.ret = Num(Tenths(g.calls[n].ret.val))
                 /\ g.calls[n].ret = NA => g.ret = Num(g.default)
                 /\ g.ret # NA
       /\ \A i \in 1..Len(ctx[1].cash_table) :
             LET row == ctx[1].cash_table[i]
             IN  row.currency = "TWD"
                    => /\ row.calls = <<>>
                       /\ row.rate = Num(Tenths(1))
                       /\ row.mv_twd = Tenths(row.amount)

C20_Witness ==
    /\ ctx # <<>>
    /\ Len(ctx[1].exchange.calls) = 2
    /\ ctx[1].exchange.calls[1].ret = NA
    /\ ctx[1].exchange.calls[2].ret # NA
    /\ ctx[1].exchange.ret = Num(Tenths(ctx[1].exchange.calls[2].ret.val))
    /\ \E i, j, k \in 1..Len(ctx[1].cash_table) :
          /\ ctx[1].cash_table[i].currency = "TWD"
          /\ ctx[1].cash_table[i].calls = <<>>
          /\ ctx[1].cash_table[j].currency = "AUD"
          /\ Len(ctx[1].cash_table[j].calls) = 1
          /\ ctx[1].cash_table[k].currency = "USD"
          /\ Len(ctx[1].cash_table[k].calls) = 2

\* C21: get_tw_stock_price looks the candidates base.TW, base.TWO, base and
\* base.TPE up in that order, each once at most; it stops at the first one
\* that resolves and returns its price, looking no later candidate up; it
\* returns "N/A" only when all four failed.
C21_TwCandidatesInOrder ==
    ctx # <<>> =>
       \A i \in 1..Len(ctx[1].tw_table) :
          LET it == ctx[1].tw_table[i]
              n == Len(it.calls)
              order == <<"0050.TW", "0050.TWO", "0050", "0050.TPE">>
          IN  it.symbol = "0050.TW" =>
                 /\ n \in 1..4
                 /\ \A j \in 1..n : it.calls[j].symbol = order[j]
                 /\ \A j \in 1..n - 1 : it.calls[j].ret = NA
                 /\ n < 4 => it.calls[n].ret # NA
                 /\ it.price = it.calls[n].ret
                 /\ it.price = NA => n = 4 /\ \A j \in 1..4 : it.calls[j].ret = NA

C21_Witness ==
    /\ ctx # <<>>
    /\ Len(ctx[1].tw_table) = 1
    /\ Len(ctx[1].tw_table[1].calls) = 3
    /\ ctx[1].tw_table[1].calls[1].ret = NA
    /\ ctx[1].tw_table[1].calls[2].ret = NA
    /\ ctx[1].tw_table[1].calls[3].symbol = "0050"
    /\ ctx[1].tw_table[1].price = Num(3)
    /\ HistoryKey("0050.TPE", "7d") \notin DOMAIN cache

\* C22: within one build_context call every amount in USD that is converted
\* to TWD (US stocks, the bonds, gold, crypto and the USD cash balance) is
\* converted with the same USD/TWD rate, whatever the lookups gave, the rate
\* being the default when its lookup failed.
C22_OneExchangeRatePerBuild ==
    ctx # <<>> =>
       LET b == ctx[1]
           rate == b.exchange_rate
       IN  /\ b.total_stock_value_twd
                 = b.us_total_market_value * rate + Tenths(b.tw_total_market_value)
           /\ b.short_term_bonds_total_value_twd
                 = b.short_term_bonds.total_market_value_usd * rate
           /\ b.long_term_bonds_total_value_twd
                 = b.long_term_bonds.total_market_value_usd * rate
           /\ b.total_crypto_value_twd = b.crypto.total_market_value_usd * rate
           /\ b.gold_total_value_twd = b.gold.total_market_value_usd * rate
           /\ \A i \in 1..Len(b.cash_table) :
                 b.cash_table[i].currency = "USD"
                    => b.cash_table[i].mv_twd = b.cash_table[i].amount * rate

\* the template arguments of a build that are totals
TotalFields ==
    {"exchange_rate", "us_total_market_value", "us_total_cost", "us_total_profit",
     "us_total_profit_pct", "us_core_total_market_value", "us_core_total_cost",
     "us_core_total_profit", "us_core_total_profit_pct", "power_total_usd",
     "index_total_usd", "defense_total_usd", "tech_other_total_usd",
     "tw_total_market_value", "tw_total_cost", "tw_total_profit", "tw_total_profit_pct",
     "cash_total_value_twd", "total_stock_value_twd", "total_crypto_value_twd",
     "short_term_bonds_total_value_twd", "long_term_bonds_total_value_twd",
     "gold_total_value_twd", "grand_total_market_value_twd", "grand_total_cost_twd",
     "grand_total_profit_twd", "grand_total_profit_pct"}

\* a row of us_table without the weight displayed
Undisplayed(row) == [f \in DOMAIN row \ {"weight_display"} |-> row[f]]

\* the last build shows the view its toggle selects: with hide_etf the rows of
\* the holdings that are not excluded, in the order of us_data, each showing
\* its core weight; without it a row for every holding, each showing its
\* whole-portfolio weight; every row carries both weights
ViewOfLastBuild ==
    LET b == ctx[1]
        kept == IF b.initial_hide_etf
                THEN SelectSeq(b.us_data.table, LAMBDA it : it.symbol \notin config.groups.excluded)
                ELSE b.us_data.table
    IN  /\ Len(b.us_table) = Len(kept)
        /\ ~b.initial_hide_etf => Len(b.us_table) = Len(config.us)
        /\ \A i \in 1..Len(kept) :
              LET row == b.us_table[i]
              IN  /\ row.symbol = kept[i].symbol
                  /\ {"weight_all_pct_str", "weight_core_pct_str"} \subseteq DOMAIN row
                  /\ row.weight_all_pct_str = FmtPct(row.weight_all_pct)
                  /\ row.weight_core_pct_str = FmtPct(row.weight_core_pct)
                  /\ row.weight_display = IF b.initial_hide_etf THEN row.weight_core_pct_str
                                          ELSE row.weight_all_pct_str

\* C23: the ETF/core toggle only selects a view.  From every reachable state
\* and for every answer of the provider, build_context(hide_etf = True) and
\* build_context(hide_etf = False) leave the same cache and compute the same
\* totals, and the rows of the first are the non-excluded rows of the second
\* but for the weight displayed; the last build made shows the view of its
\* toggle, every row with both weights.
C23_ToggleOnlySelectsView ==
    /\ ctx # <<>> => ViewOfLastBuild
    /\ (prog = "web" /\ config # <<>>) =>
          \A market \in Markets(config, cache) :
             LET core == BuildCtx(cache, now, config, TRUE, market)
                 all == BuildCtx(cache, now, config, FALSE, market)
                 shown == SelectSeq(all.ctx.us_table, LAMBDA row : ~row.is_excluded)
             IN  /\ core.cache = all.cache
                 /\ \A f \in TotalFields : core.ctx[f] = all.ctx[f]
                 /\ Len(core.ctx.us_table) = Len(shown)
                 /\ \A i \in 1..Len(shown) :
                       Undisplayed(core.ctx.us_table[i]) = Undisplayed(shown[i])

C23_Witness ==
    /\ ctx # <<>>
    /\ ctx[1].initial_hide_etf
    /\ Len(config.us) = 2
    /\ Len(ctx[1].us_table) = 1
    /\ ctx[1].us_table[1].weight_display = "100.00%"
    /\ ctx[1].us_table[1].weight_all_pct_str = "40.00%"
    /\ ctx[1].us_core_total_market_value < ctx[1].us_total_market_value

\* the prices snapshot s shows for symbol sym
PricesOf(s, sym) == {Items(s)[i].price : i \in {j \in 1..Len(Items(s)) : Items(s)[j].symbol = sym}}

\* snapshots s1 and s2 resolved every symbol to one price, the same in both
SamePrices(s1, s2) ==
    \A sym \in Symbols :
       /\ PricesOf(s1, sym) = PricesOf(s2, sym)
       /\ Cardinality(PricesOf(s1, sym)) <= 1

\* the snapshot is the one the holdings and some prices, one for each row, give
FunctionOfPrices ==
    IF prog = "portfolio"
    THEN \E prices \in [1..Len(holdings) -> FetcherResults] :
            snap[1] = PSnapshot(BuildCoreRows(holdings),
                                [i \in 1..Len(holdings) |-> PItem(holdings[i], prices[i])])
    ELSE snap[1] = ProcessUsdAssetPortfolio(holdings, quotes)

\* C24: aggregation is deterministic and leaves the holdings untouched: no
\* step changes the configured lists; a build that resolves every symbol to
\* the price the build before resolved it to, however it got it (the provider,
\* the cache, an expired entry), returns the same items in the same order and
\* the same totals; every snapshot is the one its holdings and prices give.
C24_BuildsAreDeterministic ==
    /\ [][holdings' = holdings /\ config' = config]_vars
    /\ [][(snap # <<>> /\ snap' # <<>> /\ SamePrices(snap[1], snap'[1])) => snap' = snap]_vars
    /\ [](snap # <<>> => FunctionOfPrices)

C24_Witness ==
    /\ prog = "portfolio" /\ now = 60 /\ snap # <<>>
    /\ Len(holdings) = 2 /\ holdings[1].symbol = "A" /\ holdings[2].symbol = "B"
    /\ DOMAIN cache = {PriceKey("A"), PriceKey("B")}
    /\ cache[PriceKey("A")].ts = 0 /\ cache[PriceKey("B")].ts = 60
    /\ \A i \in 1..2 : snap[1].core_items[i].price = Num(MaxPrice)

\* C25: under every interleaving of concurrent lookups, the clock never going
\* back, the timestamp the cache holds for a key never decreases: no step
\* replaces an entry by one whose ts is older.
C25_TimestampNeverDecreases ==
    [][\A k \in DOMAIN cache : k \in DOMAIN cache' /\ cache'[k].ts >= cache[k].ts]_vars

\* a thread's lookup is under way
Running(i) == thr[i].pc \notin {"idle", "done"}

PFailed(l) ==
    /\ l.op = "cached_close" /\ l.fetches = 1
    /\ FetchPriceFromYahoo(l.resp[1]) = NoneV

\* C27: in portfolio.py the cache stores successful prices only: every entry
\* is under a ("price", symbol) key and has a price that is a number, not
\* None; a call whose lookup fails leaves the whole cache as it was; the call
\* for that symbol that comes next attempts the lookup again.
C27_OnlySuccessfulPricesAreCached ==
    /\ [](prog = "portfolio" =>
             \A k \in DOMAIN cache :
                /\ \E sym \in Symbols : k = <<"price", sym>>
                /\ cache[k].price # NoneV /\ cache[k].price[1] \in Nat)
    /\ [][(prog = "portfolio" /\ PFailed(last')) => cache' = cache]_vars
    /\ [][(prog = "portfolio" /\ PFailed(last) /\ last'.symbol = last.symbol)
             => last'.fetches = 1]_vars

C27_Witness ==
    /\ prog = "portfolio" /\ PFailed(last)
    /\ last.entry # NoneV /\ last.ret # NA
    /\ cache[PriceKey(last.symbol)] = last.entry[1]
    /\ Cardinality(DOMAIN cache) = 2
    /\ \E k \in DOMAIN cache : cache[k].price = Some(0)

\* C28 as claimed: in every portfolio.py snapshot, whatever prices resolved,
\* core_total_profit = core_total_mv - core_total_cost, and core_total_pct =
\* core_total_profit / core_total_cost * 100 when core_total_cost is not 0.
C28_TotalsAreConsistent ==
    (snap # <<>> /\ snap[1].kind = "portfolio") =>
       LET s == snap[1]
       IN  /\ s.core_total_profit = s.core_total_mv - s.core_total_cost
           /\ s.core_total_cost # 0
                 => PctEq(s.core_total_pct, Pct(s.core_total_profit * 100, s.core_total_cost))

\* the cost, unit cost * quantity, of the items whose price did not resolve
UnresolvedCost(items) ==
    Sum([i \in 1..Len(items) |->
            IF items[i].price = NA THEN items[i].cost * items[i].shares ELSE 0])

\* C28 as amended: in every portfolio.py snapshot core_total_profit is the sum
\* of the items' profits, which is core_total_mv - core_total_cost + the cost
\* of the holdings whose price did not resolve, so the three totals agree
\* when every holding with a cost resolved; core_total_pct =
\* core_total_profit / core_total_cost * 100 when core_total_cost is not 0, and 0
\* otherwise.
C28_TotalsAreConsistentOverResolved ==
    (snap # <<>> /\ snap[1].kind = "portfolio") =>
       LET s == snap[1]
       IN  /\ s.core_total_profit = Sum(Profits(s.core_items))
           /\ s.core_total_profit
                 = s.core_total_mv - s.core_total_cost + UnresolvedCost(s.core_items)
           /\ UnresolvedCost(s.core_items) = 0
                 => s.core_total_profit = s.core_total_mv - s.core_total_cost
           /\ s.core_total_cost # 0
                 => PctEq(s.core_total_pct, Pct(s.core_total_profit * 100, s.core_total_cost))
           /\ s.core_total_cost = 0 => s.core_total_pct = ZeroPct

C28_Witness ==
    /\ snap # <<>> /\ snap[1].kind = "portfolio"
    /\ Len(snap[1].core_items) = 2
    /\ snap[1].core_items[1].price # NA /\ snap[1].core_items[1].market_value > 0
    /\ snap[1].core_items[2].price = NA
    /\ UnresolvedCost(snap[1].core_items) > 0
    /\ snap[1].core_total_profit # snap[1].core_total_mv - snap[1].core_total_cost

\* the smaller of two numbers
Min(a, b) == IF a <= b THEN a ELSE b

\* C29: in a portfolio.py snapshot the rows, one for each holding, are in the
\* order of non-increasing market value and the chart follows that order:
\* chart_labels and chart_data have the same length, 11 at most; their first
\* min(10, n) entries are the symbols and market values of the first rows;
\* an entry "Others" follows exactly when the market values of the rows after
\* the tenth sum to more than 0, and it carries that sum; the chart values sum
\* to core_total_mv.
C29_ChartFollowsTheOrder ==
    (snap # <<>> /\ snap[1].kind = "portfolio") =>
       LET s == snap[1]
           n == Len(s.core_items)
           k == Min(10, n)
           tail == Sum([i \in 1..n - k |-> s.core_items[k + i].market_value])
       IN  /\ n = Len(holdings)
           /\ {s.core_items[i].symbol : i \in 1..n} = {holdings[i].symbol : i \in 1..n}
           /\ \A i \in 1..n - 1 : s.core_items[i].market_value >= s.core_items[i + 1].market_value
           /\ Len(s.chart_labels) = Len(s.chart_data)
           /\ Len(s.chart_labels) <= 11
           /\ Len(s.chart_labels) \in {k, k + 1}
           /\ \A i \in 1..k : /\ s.chart_labels[i] = s.core_items[i].symbol
                               /\ s.chart_data[i] = s.core_items[i].market_value
           /\ Len(s.chart_labels) = k + 1 <=> tail > 0
           /\ tail > 0 => s.chart_labels[k + 1] = "Others" /\ s.chart_data[k + 1] = tail
           /\ Sum(s.chart_data) = s.core_total_mv

C29_Witness ==
    /\ snap # <<>> /\ snap[1].kind = "portfolio"
    /\ Len(snap[1].core_items) = 12
    /\ Len(snap[1].chart_labels) = 11
    /\ snap[1].chart_labels[11] = "Others"
    /\ snap[1].chart_labels[1] = "S12"
    /\ snap[1].chart_data[1] > snap[1].chart_data[10]
    /\ snap[1].chart_data[11] = snap[1].core_items[11].market_value
                                   + snap[1].core_items[12].market_value
====
